---- MODULE Spec2Model ----
(***************************************************************************)
(* Lingua-Lens content script: vocabulary matcher, text-node rewriter and  *)
(* mutation coordinator.                                                   *)
(*                                                                         *)
(* Strings are sequences of one-character strings.  Offsets into a text    *)
(* are 0-based as in the JavaScript source; the character at offset i is   *)
(* text[i + 1].  Chinese characters are written by their pinyin syllable   *)
(* ("wo" for U+6211, "de" for U+7684, "ta" for U+4ED6, "men" for U+4EEC).  *)
(***************************************************************************)
EXTENDS Integers, Sequences, FiniteSets, TLC

(***************************************************************************)
(* Bounds of the model.                                                    *)
(***************************************************************************)
MaxTextLen == 3
MaxVocab == 3

\* CHUNK_SIZE is 200 in the source; it is scaled down so that a vocabulary
\* of MaxVocab keys is split over more than one chunk pattern.
CHUNK_SIZE == 2

(***************************************************************************)
(* Characters.                                                             *)
(***************************************************************************)
TextChars == {"a", "b", "A", " ", "."}

\* \w of the regular expression engine, restricted to the alphabet
IsWordChar(c) == c \in {"a", "b", "c", "A", "B", "C"}

\* String.prototype.toLowerCase, per character
ToLowerChar(c) ==
  IF c = "A" THEN "a" ELSE IF c = "B" THEN "b" ELSE IF c = "C" THEN "c" ELSE c

toLowerCase(s) == [i \in 1..Len(s) |-> ToLowerChar(s[i])]

\* Canonicalize of the regular expression engine under the i flag
Canonicalize(c) ==
  IF c = "a" THEN "A" ELSE IF c = "b" THEN "B" ELSE IF c = "c" THEN "C" ELSE c

\* UTF-16 code unit of a character
CharCode(c) ==
  CASE c = " " -> 32
    [] c = "." -> 46
    [] c = "A" -> 65
    [] c = "B" -> 66
    [] c = "C" -> 67
    [] c = "\\" -> 92
    [] c = "a" -> 97
    [] c = "b" -> 98
    [] c = "c" -> 99
    [] c = "|" -> 124
    [] OTHER -> 0

\* s < t in the order of the default comparator of Array.prototype.sort
StrLess(s, t) ==
  \E k \in 1..(Len(t)) :
    /\ \A j \in 1..(k - 1) : j <= Len(s) /\ s[j] = t[j]
    /\ \/ Len(s) = k - 1
       \/ Len(s) >= k /\ CharCode(s[k]) < CharCode(t[k])

Min(S) == CHOOSE x \in S : \A y \in S : x <= y

Range(s) == {s[i] : i \in 1..Len(s)}

RECURSIVE Concat(_)
Concat(ss) == IF ss = <<>> THEN <<>> ELSE Head(ss) \o Concat(Tail(ss))

RECURSIVE Join(_, _)
Join(ss, sep) ==
  IF ss = <<>> THEN <<>>
  ELSE IF Len(ss) = 1 THEN ss[1]
  ELSE ss[1] \o sep \o Join(Tail(ss), sep)

\* text.slice(from, to) with 0-based offsets
Slice(text, from, to) == SubSeq(text, from + 1, to)

(***************************************************************************)
(* The vocabulary object.  A JavaScript object with string keys is an      *)
(* insertion-ordered sequence of entries with distinct keys.               *)
(***************************************************************************)
NULL == "null"

\* Object.keys(knownWords)
ObjectKeys(obj) == [i \in 1..Len(obj) |-> obj[i].key]

HasKey(obj, k) == \E i \in 1..Len(obj) : obj[i].key = k

\* knownWords[wordKey], for a key the object has
Lookup(obj, k) == obj[CHOOSE i \in 1..Len(obj) : obj[i].key = k]

(***************************************************************************)
(* The compound dictionary (a part of the CompoundWords table).            *)
(***************************************************************************)
CompoundKeys == {<<"ta", "de">>, <<"wo", "de">>, <<"wo", "men">>, <<"ta", "men">>}

\* CompoundWords[k], for a key of the table
CompoundWords(k) ==
  CASE k = <<"ta", "de">> -> <<"his">>
    [] k = <<"wo", "de">> -> <<"my">>
    [] k = <<"wo", "men">> -> <<"we">>
    [] k = <<"ta", "men">> -> <<"they">>

NoCompound == [found |-> FALSE, compound |-> <<>>, translation |-> <<>>, length |-> 0]

\* A plausible slip: the lengths are tried shortest first
findCompoundShortestFirst(words, startIndex, lookahead) ==
  LET lens == {len \in 1..lookahead :
                 /\ startIndex + len < Len(words)
                 /\ Concat(SubSeq(words, startIndex + 1, startIndex + len + 1)) \in CompoundKeys}
  IN IF lens = {} THEN NoCompound
     ELSE LET len == CHOOSE l \in lens : \A m \in lens : l <= m
              potentialCompound == Concat(SubSeq(words, startIndex + 1, startIndex + len + 1))
          IN [found |-> TRUE,
              compound |-> potentialCompound,
              translation |-> CompoundWords(potentialCompound),
              length |-> len + 1]

\* window.findCompound(words, startIndex, lookahead): the longest of the
\* lengths lookahead+1 .. 2 whose concatenation is in the dictionary;
\* found = FALSE stands for the null result
findCompound(words, startIndex, lookahead) ==
  LET lens == {len \in 1..lookahead :
                 /\ startIndex + len < Len(words)
                 /\ Concat(SubSeq(words, startIndex + 1, startIndex + len + 1)) \in CompoundKeys}
  IN IF lens = {} THEN NoCompound
     ELSE LET len == CHOOSE l \in lens : \A m \in lens : m <= l
              potentialCompound == Concat(SubSeq(words, startIndex + 1, startIndex + len + 1))
          IN [found |-> TRUE,
              compound |-> potentialCompound,
              translation |-> CompoundWords(potentialCompound),
              length |-> len + 1]

(***************************************************************************)
(* escapeRegex and the compilation of the chunk patterns.                  *)
(***************************************************************************)
RegexSpecials == {".", "*", "+", "?", "^", "$", "{", "}", "(", ")", "|", "[", "]", "\\"}

RECURSIVE escapeRegex(_)
escapeRegex(string) ==
  IF string = <<>> THEN <<>>
  ELSE (IF Head(string) \in RegexSpecials THEN <<"\\", Head(string)>> ELSE <<Head(string)>>)
       \o escapeRegex(Tail(string))

\* The atoms of one alternative of a pattern source: an escaped character is
\* a literal, an unescaped dot matches any character.
RECURSIVE ParseAtoms(_)
ParseAtoms(src) ==
  IF src = <<>> THEN <<>>
  ELSE IF Head(src) = "\\" /\ Len(src) >= 2
       THEN <<[any |-> FALSE, ch |-> src[2]]>> \o ParseAtoms(Tail(Tail(src)))
  ELSE IF Head(src) = "."
       THEN <<[any |-> TRUE, ch |-> "."]>> \o ParseAtoms(Tail(src))
  ELSE <<[any |-> FALSE, ch |-> Head(src)]>> \o ParseAtoms(Tail(src))

\* Splits the body of the group at every unescaped "|"
RECURSIVE SplitAlternatives(_, _)
SplitAlternatives(body, cur) ==
  IF body = <<>> THEN <<cur>>
  ELSE IF Head(body) = "\\" /\ Len(body) >= 2
       THEN SplitAlternatives(Tail(Tail(body)), cur \o <<body[1], body[2]>>)
  ELSE IF Head(body) = "|"
       THEN <<cur>> \o SplitAlternatives(Tail(body), <<>>)
  ELSE SplitAlternatives(Tail(body), Append(cur, Head(body)))

\* The source text `\\b(${chunk.join('|')})\\b`
PatternSource(chunk) ==
  <<"\\", "b", "(">> \o Join(chunk, <<"|">>) \o <<")", "\\", "b">>

\* new RegExp(source, 'gi') for a source of the shape \b(...)\b
RegExpCompile(source) ==
  LET body == SubSeq(source, 4, Len(source) - 3)
      alts == SplitAlternatives(body, <<>>)
  IN [alts |-> [i \in 1..Len(alts) |-> ParseAtoms(alts[i])]]

RECURSIVE SortedInsert(_, _)
SortedInsert(sorted, k) ==
  IF sorted = <<>> THEN <<k>>
  ELSE IF StrLess(k, Head(sorted)) THEN <<k>> \o sorted
  ELSE <<Head(sorted)>> \o SortedInsert(Tail(sorted), k)

RECURSIVE SortKeys(_)
SortKeys(keys) ==
  IF keys = <<>> THEN <<>> ELSE SortedInsert(SortKeys(Tail(keys)), Head(keys))

\* A plausible slip: the key list is used in insertion order
JsSortUnsorted(wordList) == wordList

\* wordList.sort() with the default comparator
JsSort(wordList) == SortKeys(wordList)

\* A plausible slip: keys are compiled without escaping
EscapeAllRaw(wordList) == wordList

\* wordList.map(w => escapeRegex(w))
EscapeAll(wordList) == [i \in 1..Len(wordList) |-> escapeRegex(wordList[i])]

\* const currentHash = wordList.sort().join('|')
KnownWordsHash(obj) == Join(JsSort(ObjectKeys(obj)), <<"|">>)

\* The chunk loop on a key list: one pattern per CHUNK_SIZE escaped keys
ChunkLoop(wordList) ==
  LET escapedWords == EscapeAll(wordList)
      n == Len(escapedWords)
      nChunks == (n + CHUNK_SIZE - 1) \div CHUNK_SIZE
      chunk(c) == SubSeq(escapedWords, (c - 1) * CHUNK_SIZE + 1,
                         IF c * CHUNK_SIZE < n THEN c * CHUNK_SIZE ELSE n)
  IN [c \in 1..nChunks |-> RegExpCompile(PatternSource(chunk(c)))]

\* The patterns of getCompiledPatterns: the chunk loop on the sorted keys
CompileChunks(obj) ==
  LET escapedWords == EscapeAll(JsSort(ObjectKeys(obj)))
      n == Len(escapedWords)
      nChunks == (n + CHUNK_SIZE - 1) \div CHUNK_SIZE
      chunk(c) == SubSeq(escapedWords, (c - 1) * CHUNK_SIZE + 1,
                         IF c * CHUNK_SIZE < n THEN c * CHUNK_SIZE ELSE n)
  IN [c \in 1..nChunks |-> RegExpCompile(PatternSource(chunk(c)))]

(***************************************************************************)
(* The regular expression engine on a chunk pattern \b(k1|k2|...)\b, gi.   *)
(***************************************************************************)
\* \b at offset i of text
WordBoundary(text, i) ==
  LET a == i >= 1 /\ IsWordChar(text[i])
      b == i < Len(text) /\ IsWordChar(text[i + 1])
  IN a # b

AtomMatches(atom, c) == atom.any \/ Canonicalize(atom.ch) = Canonicalize(c)

AltMatchesAt(atoms, text, i) ==
  /\ i + Len(atoms) <= Len(text)
  /\ \A k \in 1..Len(atoms) : AtomMatches(atoms[k], text[i + k])

\* The end offset of the match of the pattern at offset i, or -1: the first
\* alternative, in the order of the source, that matches and is followed
\* by \b.
MatchEndAt(pattern, text, i) ==
  IF ~WordBoundary(text, i) THEN -1
  ELSE LET ok == {k \in 1..Len(pattern.alts) :
                    /\ AltMatchesAt(pattern.alts[k], text, i)
                    /\ WordBoundary(text, i + Len(pattern.alts[k]))}
       IN IF ok = {} THEN -1 ELSE i + Len(pattern.alts[Min(ok)])

\* pattern.exec(originalText) with pattern.lastIndex = from: the leftmost
\* match at or after from; index = -1 stands for null
RegExpExec(pattern, text, from) ==
  LET starts == {i \in from..Len(text) : MatchEndAt(pattern, text, i) # -1}
  IN IF starts = {} THEN [text |-> <<>>, index |-> -1, endIndex |-> 0]
     ELSE LET i == Min(starts)
              e == MatchEndAt(pattern, text, i)
          IN [text |-> Slice(text, i, e), index |-> i, endIndex |-> e]

\* pattern.test(originalText) after pattern.lastIndex = 0
RegExpTest(pattern, text) == RegExpExec(pattern, text, 0).index # -1

\* while ((match = pattern.exec(originalText)) !== null) matches.push(...)
RECURSIVE ExecLoop(_, _, _)
\* A plausible slip: the loop ends after the first match
ExecLoopOnce(pattern, text, from) ==
  LET m == RegExpExec(pattern, text, from)
  IN IF m.index = -1 THEN <<>> ELSE <<m>>

ExecLoop(pattern, text, from) ==
  LET m == RegExpExec(pattern, text, from)
  IN IF m.index = -1 THEN <<>>
     ELSE <<m>> \o ExecLoop(pattern, text, m.endIndex)

\* The matches of all patterns, in the order they are pushed
RawMatches(patterns, text) ==
  Concat([p \in 1..Len(patterns) |-> ExecLoop(patterns[p], text, 0)])

\* matches.sort((a, b) => a.index - b.index): a stable sort by index
RECURSIVE StableInsert(_, _)
StableInsert(sorted, m) ==
  IF sorted = <<>> THEN <<m>>
  ELSE IF m.index < Head(sorted).index THEN <<m>> \o sorted
  ELSE <<Head(sorted)>> \o StableInsert(Tail(sorted), m)

RECURSIVE SortByIndex(_)
SortByIndex(matches) ==
  IF matches = <<>> THEN <<>>
  ELSE StableInsert(SortByIndex(SubSeq(matches, 1, Len(matches) - 1)), matches[Len(matches)])

\* A plausible slip: every sorted match is kept
KeepsAll(kept, current) == TRUE

\* The test of the overlap filter
Keeps(kept, current) ==
  kept = <<>> \/ current.index >= kept[Len(kept)].endIndex

RECURSIVE FilterOverlaps(_, _)
FilterOverlaps(sorted, kept) ==
  IF sorted = <<>> THEN kept
  ELSE FilterOverlaps(Tail(sorted),
                      IF Keeps(kept, Head(sorted)) THEN Append(kept, Head(sorted)) ELSE kept)

\* uniqueMatches of replaceTextNode
UniqueMatches(patterns, text) == FilterOverlaps(SortByIndex(RawMatches(patterns, text)), <<>>)

(***************************************************************************)
(* The replacement fragment of replaceTextNode (learn mode).               *)
(***************************************************************************)
TextRun(t) ==
  [type |-> "text", text |-> t, original |-> <<>>, compound |-> <<>>, translated |-> FALSE,
   tooltip |-> <<>>]

\* A generated unit: textContent, data-original, data-compound,
\* data-translated, and the lines of the text that the mouseover listener
\* shows (the listener is added when settings.showTooltips)
Unit(translation, original, compound, tooltipText) ==
  [type |-> "span", text |-> translation, original |-> original,
   compound |-> compound, translated |-> TRUE, tooltip |-> tooltipText]

\* let tooltipText = matchedWord; if (wordData.pinyin) tooltipText =
\* `${matchedWord}\n${wordData.pinyin}`
WordTooltip(matchedWord, wordData) ==
  IF wordData.pinyin # <<>> THEN <<matchedWord, wordData.pinyin>> ELSE <<matchedWord>>

\* A plausible slip: only the current match is marked as processed
ConsumedOne(i, length) == {i}

\* The indices of the matches that a unit of length matches at i consumes:
\* processedIndices.add(j) for i <= j < i + length
Consumed(i, length) == i..(i + length - 1)

\* The translations collected for the compound lookup at position i
\* (1-based here): the current one and those of the next two matches that
\* are vocabulary keys
ChineseWords(um, i, obj) ==
  LET next(j) == IF j <= Len(um) /\ HasKey(obj, toLowerCase(um[j].text))
                 THEN <<Lookup(obj, toLowerCase(um[j].text)).translation>> ELSE <<>>
  IN <<Lookup(obj, toLowerCase(um[i].text)).translation>> \o next(i + 1) \o next(i + 2)

\* One iteration of the loop over uniqueMatches; st holds fragment,
\* lastIndex and processedIndices
MatchStep(um, i, obj, text, st) ==
  IF i \in st.processedIndices THEN st
  ELSE LET currentMatch == um[i]
           wordKey == toLowerCase(currentMatch.text)
       IN IF ~HasKey(obj, wordKey) THEN st
          ELSE LET wordData == Lookup(obj, wordKey)
                   chineseWords == ChineseWords(um, i, obj)
                   compoundResult == IF Len(chineseWords) > 1
                                     THEN findCompound(chineseWords, 0, 2) ELSE NoCompound
                   before == IF currentMatch.index > st.lastIndex
                             THEN <<TextRun(Slice(text, st.lastIndex, currentMatch.index))>>
                             ELSE <<>>
               IN IF compoundResult.found
                  THEN LET last == i + compoundResult.length - 1
                           originalWords == [j \in 1..compoundResult.length |-> um[i + j - 1].text]
                       IN [fragment |-> st.fragment \o before \o
                                          <<Unit(compoundResult.translation,
                                                 Join(originalWords, <<" ">>),
                                                 compoundResult.compound,
                                                 <<compoundResult.compound,
                                                   Join(originalWords, <<" ">>)>>)>>,
                           lastIndex |-> um[last].endIndex,
                           processedIndices |-> st.processedIndices \cup
                                                  Consumed(i, compoundResult.length)]
                  ELSE [fragment |-> st.fragment \o before \o
                                       <<Unit(wordData.translation, currentMatch.text, <<>>,
                                              WordTooltip(currentMatch.text, wordData))>>,
                        lastIndex |-> currentMatch.endIndex,
                        processedIndices |-> st.processedIndices \cup Consumed(i, 1)]

RECURSIVE MatchLoop(_, _, _, _, _)
MatchLoop(um, i, obj, text, st) ==
  IF i > Len(um) THEN st
  ELSE MatchLoop(um, i + 1, obj, text, MatchStep(um, i, obj, text, st))

\* The child list of the fragment that replaceTextNode builds for
\* originalText
BuildFragment(text, patterns, obj) ==
  LET um == UniqueMatches(patterns, text)
      st == MatchLoop(um, 1, obj, text,
                      [fragment |-> <<>>, lastIndex |-> 0, processedIndices |-> {}])
  IN st.fragment \o
     (IF st.lastIndex < Len(text) THEN <<TextRun(Slice(text, st.lastIndex, Len(text)))>> ELSE <<>>)

(***************************************************************************)
(* The pattern cache of getCompiledPatterns.  A pattern list is an array   *)
(* object: id tells two arrays apart, id 0 stands for null.                *)
(***************************************************************************)
NoPatterns == [id |-> 0, chunks |-> <<>>]

\* null as the value of cachedKnownWordsHash; no join of keys equals it
NullHash == <<NULL>>

\* A plausible slip: the cached list is reused whatever the signature
CacheHitAnyHash(cached, cachedHash, currentHash) == cached.id # 0

\* if (cachedPatterns && cachedKnownWordsHash === currentHash)
CacheHit(cached, cachedHash, currentHash) == cached.id # 0 /\ cachedHash = currentHash

\* getCompiledPatterns(knownWords) on the cache (cached, cachedHash), with
\* count compilations done so far: the returned list and the cache after it
getCompiledPatterns(obj, cached, cachedHash, count) ==
  LET currentHash == KnownWordsHash(obj)
  IN IF CacheHit(cached, cachedHash, currentHash)
     THEN [patterns |-> cached, cachedPatterns |-> cached,
           cachedKnownWordsHash |-> cachedHash, compileCount |-> count]
     ELSE LET patterns == [id |-> count + 1, chunks |-> CompileChunks(obj)]
          IN [patterns |-> patterns, cachedPatterns |-> patterns,
              cachedKnownWordsHash |-> currentHash, compileCount |-> count + 1]

(***************************************************************************)
(* Inputs.                                                                 *)
(***************************************************************************)
RECURSIVE SeqsUpTo(_, _)
SeqsUpTo(S, n) ==
  IF n = 0 THEN {<<>>}
  ELSE LET shorter == SeqsUpTo(S, n - 1)
       IN shorter \cup {Append(s, c) : s \in shorter, c \in S}

Texts == SeqsUpTo(TextChars, MaxTextLen)

\* Keys a learner can have saved: words, a phrase, keys with punctuation
KeyUniverse ==
  {<<"a">>, <<"b">>, <<"a", " ", "b">>, <<".", "a">>, <<"b", ".">>}

\* The translation stored with a key
TranslationOf(k) ==
  CASE k = <<"a">> -> <<"wo">>
    [] k = <<"b">> -> <<"de">>
    [] k = <<"a", " ", "b">> -> <<"ta">>
    [] k = <<".", "a">> -> <<"a">>
    [] k = <<"c">> -> <<>>
    [] OTHER -> <<"x">>

\* The pinyin stored with a key; the empty string stands for none
PinyinOf(k) == IF k = <<"a">> THEN <<"wo3">> ELSE <<>>

Entry(k) == [key |-> k, translation |-> TranslationOf(k), pinyin |-> PinyinOf(k)]

RECURSIVE SetToSeq(_)
SetToSeq(S) ==
  IF S = {} THEN <<>>
  ELSE LET x == CHOOSE y \in S : TRUE IN <<x>> \o SetToSeq(S \ {x})

Reverse(s) == [i \in 1..Len(s) |-> s[Len(s) + 1 - i]]

\* The vocabulary object with the keys of S, inserted in descending order
VocabularyOf(S) ==
  LET ks == Reverse(SortKeys(SetToSeq(S)))
  IN [i \in 1..Len(ks) |-> Entry(ks[i])]

\* Vocabulary objects of at most MaxVocab keys
Vocabularies ==
  {VocabularyOf(S) : S \in {T \in SUBSET KeyUniverse : Cardinality(T) <= MaxVocab}}

(***************************************************************************)
(* The document.  dom is the sequence of all nodes ever created; a node is *)
(* named by its index, Body is document.body, parent 0 is no parent.       *)
(***************************************************************************)
Body == 1

\* A plausible slip: the code elements are left out of the set
SKIP_TAGS_NoCode == {"SCRIPT", "STYLE", "NOSCRIPT", "IFRAME", "OBJECT", "EMBED", "INPUT",
                     "TEXTAREA", "SELECT", "BUTTON"}

SKIP_TAGS == {"SCRIPT", "STYLE", "NOSCRIPT", "IFRAME", "OBJECT", "EMBED", "INPUT",
              "TEXTAREA", "SELECT", "BUTTON", "CODE", "PRE"}

ElementNode(tag, parent, translated, original, byPage) ==
  [type |-> "element", tag |-> tag, parent |-> parent, childNodes |-> <<>>,
   text |-> <<>>, translated |-> translated, editable |-> FALSE,
   original |-> original, byPage |-> byPage]

TextNode(text, parent, byPage) ==
  [type |-> "text", tag |-> "", parent |-> parent, childNodes |-> <<>>,
   text |-> text, translated |-> FALSE, editable |-> FALSE,
   original |-> <<>>, byPage |-> byPage]

\* parent.appendChild(child) for nodes already in d
AppendChild(d, parent, child) ==
  [d EXCEPT ![parent].childNodes = Append(@, child), ![child].parent = parent]

\* A new element with tag and one text child, appended to parent
WithBlock(d, parent, tag, text) ==
  LET e == Len(d) + 1
      t == Len(d) + 2
      d1 == d \o <<ElementNode(tag, 0, FALSE, <<>>, TRUE), TextNode(text, 0, TRUE)>>
  IN AppendChild(AppendChild(d1, e, t), parent, e)

RECURSIVE InDocument(_, _)
InDocument(d, n) ==
  IF n = Body THEN TRUE
  ELSE IF d[n].parent = 0 THEN FALSE
  ELSE InDocument(d, d[n].parent)

\* The elements from node.parentElement up to the top
RECURSIVE Ancestors(_, _)
Ancestors(d, n) ==
  IF d[n].parent = 0 THEN {} ELSE {d[n].parent} \cup Ancestors(d, d[n].parent)

\* The text nodes of the subtree of root in document order
RECURSIVE TextNodesUnder(_, _)
TextNodesUnder(d, root) ==
  IF d[root].type = "text" THEN <<root>>
  ELSE Concat([i \in 1..Len(d[root].childNodes) |-> TextNodesUnder(d, d[root].childNodes[i])])

\* node.textContent.trim() is not empty
TrimIsNonEmpty(text) == \E i \in 1..Len(text) : text[i] # " "

\* A plausible slip: generated output is not skipped
AcceptNodeNoAttributes(d, n) ==
  /\ TrimIsNonEmpty(d[n].text)
  /\ \A p \in Ancestors(d, n) : d[p].tag \notin SKIP_TAGS

\* acceptNode of walkTextNodes: FILTER_ACCEPT or FILTER_REJECT
AcceptNode(d, n) ==
  /\ TrimIsNonEmpty(d[n].text)
  /\ \A p \in Ancestors(d, n) :
       /\ d[p].tag \notin SKIP_TAGS
       /\ ~d[p].translated
       /\ ~d[p].editable

\* The nodes of a fragment, appended to d with no parent yet: a text node
\* per plain run, a span with its text child per unit
RECURSIVE WithFragmentNodes(_, _, _)
WithFragmentNodes(d, frag, i) ==
  IF i > Len(frag) THEN d
  ELSE IF frag[i].type = "text"
       THEN WithFragmentNodes(Append(d, TextNode(frag[i].text, 0, FALSE)), frag, i + 1)
  ELSE LET e == Len(d) + 1
           d1 == d \o <<ElementNode("SPAN", 0, TRUE, frag[i].original, FALSE),
                        TextNode(frag[i].text, 0, FALSE)>>
       IN WithFragmentNodes(AppendChild(d1, e, e + 1), frag, i + 1)

\* The top-level nodes that WithFragmentNodes adds to d for frag
RECURSIVE FragmentTop(_, _, _)
FragmentTop(frag, i, next) ==
  IF i > Len(frag) THEN <<>>
  ELSE <<next>> \o FragmentTop(frag, i + 1, IF frag[i].type = "text" THEN next + 1 ELSE next + 2)

\* A plausible slip: the nodes are put in one by one and the insertion
\* stops after the first
SplicedFirst(kids, n, top) ==
  LET at == CHOOSE i \in 1..Len(kids) : kids[i] = n
  IN SubSeq(kids, 1, at - 1) \o SubSeq(top, 1, 1) \o SubSeq(kids, at + 1, Len(kids))

\* textNode.parentNode.replaceChild(fragment, textNode)
\* The children kids with the nodes top in the place of n
Spliced(kids, n, top) ==
  LET at == CHOOSE i \in 1..Len(kids) : kids[i] = n
  IN SubSeq(kids, 1, at - 1) \o top \o SubSeq(kids, at + 1, Len(kids))

\* d1 holds the nodes top of the fragment; they take the place of n
\* under its parent par
Replaced(d1, n, par, top) ==
  [dom |-> [k \in 1..Len(d1) |->
              IF k = par
              THEN [d1[k] EXCEPT !.childNodes = Spliced(@, n, top)]
              ELSE IF k = n THEN [d1[k] EXCEPT !.parent = 0]
              ELSE IF k \in Range(top) THEN [d1[k] EXCEPT !.parent = par]
              ELSE d1[k]],
   added |-> top]

ReplaceChild(d, n, frag) ==
  Replaced(WithFragmentNodes(d, frag, 1), n, d[n].parent, FragmentTop(frag, 1, Len(d) + 1))

\* The callback of translateKnownWords and of processSubtree on one text
\* node, on the walk state st
\* The walk state after replaceTextNode has put r.dom in place of the
\* document and processedNodes.add(textNode); the observer, when it
\* observes, is handed the added nodes r.added
AfterReplace(st, n, r) ==
  [st EXCEPT !.dom = r.dom,
             !.processedNodes = @ \cup {n},
             !.records = IF st.observing /\ InDocument(st.dom, n)
                         THEN @ \o r.added ELSE @,
             !.replaced = Append(@, n)]

\* A plausible slip: the early exit on no match is left out
NodeCallbackNoTest(st, n, pats, obj) ==
  IF n \in st.processedNodes THEN st
  ELSE AfterReplace(st, n, ReplaceChild(st.dom, n, BuildFragment(st.dom[n].text, pats, obj)))

NodeCallback(st, n, pats, obj) ==
  IF n \in st.processedNodes THEN st
  ELSE IF ~\E p \in 1..Len(pats) : RegExpTest(pats[p], st.dom[n].text) THEN st
  ELSE AfterReplace(st, n, ReplaceChild(st.dom, n, BuildFragment(st.dom[n].text, pats, obj)))

\* while (node = walker.nextNode()) callback(node), over the text nodes
\* list[i..]: a rejected node is passed over; after the callback has
\* replaced the current node, the walker stands on a node without parent
\* and siblings and nextNode() returns null
RECURSIVE WalkFrom(_, _, _, _, _)
\* walker.nextNode() after the callback has left the walk state st1
NextNode(st1, list, i, pats, obj) ==
  IF st1.dom[list[i]].parent = 0 THEN st1
  ELSE WalkFrom(st1, list, i + 1, pats, obj)

WalkFrom(st, list, i, pats, obj) ==
  IF i > Len(list) THEN st
  ELSE IF ~AcceptNode(st.dom, list[i]) THEN WalkFrom(st, list, i + 1, pats, obj)
  ELSE NextNode(NodeCallback(st, list[i], pats, obj), list, i, pats, obj)

\* walkTextNodes(root, callback)
walkTextNodes(st, root, pats, obj) ==
  WalkFrom(st, TextNodesUnder(st.dom, root), 1, pats, obj)

(***************************************************************************)
(* The subtitle path: translateText on the text of one caption cue.        *)
(***************************************************************************)
\* The characters of the class [.,!?;:'"()[\]{}]
Punctuation == {".", ",", "!", "?", ";", ":", "'", "\"", "(", ")", "[", "]", "{", "}"}

\* text.split(/(\s+)/): the runs of white space and the runs between them,
\* each with its offset; cur is the run that began at offset start
RECURSIVE SplitParts(_, _, _, _)
SplitParts(text, i, cur, start) ==
  IF i > Len(text)
  THEN <<[text |-> cur, index |-> start]>>
       \o (IF cur # <<>> /\ cur[1] = " " THEN <<[text |-> <<>>, index |-> Len(text)]>> ELSE <<>>)
  ELSE IF cur # <<>> /\ ((text[i] = " ") # (cur[1] = " "))
       THEN <<[text |-> cur, index |-> start]>> \o SplitParts(text, i + 1, <<text[i]>>, i - 1)
  ELSE IF cur = <<>> /\ text[i] = " " /\ i = 1
       THEN <<[text |-> <<>>, index |-> 0]>> \o SplitParts(text, i + 1, <<text[i]>>, i - 1)
  ELSE SplitParts(text, i + 1, Append(cur, text[i]), start)

\* part.toLowerCase().replace(/[.,!?;:'"()[\]{}]/g, '')
CleanWord(part) == SelectSeq(toLowerCase(part), LAMBDA c : c \notin Punctuation)

\* The piece that translateText pushes for one part
TranslatedPart(part, obj) ==
  IF part.text # <<>> /\ \A i \in 1..Len(part.text) : part.text[i] = " "
  THEN [type |-> "text", text |-> part.text, original |-> <<>>,
        index |-> part.index, endIndex |-> part.index + Len(part.text)]
  ELSE IF /\ HasKey(obj, CleanWord(part.text))
          /\ Lookup(obj, CleanWord(part.text)).translation # <<>>
       THEN [type |-> "span", text |-> Lookup(obj, CleanWord(part.text)).translation,
             original |-> part.text,
             index |-> part.index, endIndex |-> part.index + Len(part.text)]
  ELSE [type |-> "text", text |-> part.text, original |-> <<>>,
        index |-> part.index, endIndex |-> part.index + Len(part.text)]

\* translateText(text): the pieces of the returned markup
translateText(text, obj) ==
  IF text = <<>> THEN <<>>
  ELSE LET parts == SplitParts(text, 1, <<>>, 0)
       IN [p \in 1..Len(parts) |-> TranslatedPart(parts[p], obj)]

(***************************************************************************)
(* The exclusion list of the settings against the address of the page.     *)
(***************************************************************************)
\* window.location.href of the page
PageUrl == <<"s", ":", "/", "/", "a", ".", "b", "/", "C">>

\* new URL(currentUrl).hostname: between the two slashes and the next one
Hostname(url) ==
  LET from == Min({i \in 1..Len(url) : i >= 2 /\ url[i] = "/" /\ url[i - 1] = "/"}) + 1
      to == Min({i \in from..(Len(url) + 1) : i = Len(url) + 1 \/ url[i] = "/"}) - 1
  IN toLowerCase(SubSeq(url, from, to))

\* string.trim()
RECURSIVE Trim(_)
Trim(str) ==
  IF str # <<>> /\ Head(str) = " " THEN Trim(Tail(str))
  ELSE IF str # <<>> /\ str[Len(str)] = " " THEN Trim(SubSeq(str, 1, Len(str) - 1))
  ELSE str

\* string.includes(pattern)
Includes(string, pattern) ==
  \E i \in 0..(Len(string) - Len(pattern)) : SubSeq(string, i + 1, i + Len(pattern)) = pattern

\* isUrlExcluded(currentUrl, excludedUrls), behind the test of
\* settings.excludedUrls in initialize
isUrlExcluded(currentUrl, excludedUrls) ==
  /\ Len(excludedUrls) # 0
  /\ \E e \in 1..Len(excludedUrls) :
       \/ Includes(Hostname(currentUrl), toLowerCase(Trim(excludedUrls[e])))
       \/ Includes(toLowerCase(currentUrl), toLowerCase(Trim(excludedUrls[e])))

(***************************************************************************)
(* State.                                                                  *)
(***************************************************************************)
VARIABLES
  storedWords,           \* knownWords in chrome.storage.local
  storedAuto,            \* settings.autoTranslate in chrome.storage.local
  storedExcluded,        \* settings.excludedUrls in chrome.storage.local
  importData,            \* importWords: the parsed file, between JSON.parse and the set
  knownWords,            \* the loaded vocabulary object
  settings,              \* the loaded settings
  isInitialized,
  initPc,                \* position of initialize()
  cachedPatterns,        \* the cached pattern list
  cachedKnownWordsHash,  \* the signature the cache was compiled for
  compileCount,          \* number of pattern lists compiled so far
  processedNodes,        \* the WeakSet of rewritten text nodes
  dom,                   \* the nodes of the page
  observer,              \* the MutationObserver is installed
  records,               \* added nodes of the mutation records not yet delivered
  timers,                \* pending debounce timers, each with its mutatedRoots
  timeoutHandle,         \* setupMutationObserver.timeout
  pendingRefresh,        \* refreshTranslations / storageChanged messages in flight
  pendingOnChanged,      \* chrome.storage.onChanged events in flight
  pageAdds,              \* elements the page has added so far
  storageWrites,         \* storage writes so far
  rootPasses,            \* processSubtree calls per observed page-added element
  cleanSincePass,        \* nothing changed page or vocabulary since the last processPage
  repeatReplaced,        \* text nodes replaced by the last processPage, if it was a repeat
  selfReplaced,          \* text nodes replaced under a root the rewriter generated
  selfPassed,            \* a root the rewriter generated was passed to processSubtree
  lastCall,              \* the cache before the last call of getCompiledPatterns
  originalText,          \* replaceTextNode: the text of the node
  patterns,              \* replaceTextNode: the pattern list it is given
  uniqueMatches,         \* replaceTextNode: the kept matches
  fragment,              \* replaceTextNode: the replacement fragment
  pc,                    \* position in the scan of one text
  playerFound,           \* subtitle script: #movie_player and the caption container exist
  playerCheckInterval,   \* subtitle script: the interval id kept by waitForVideoPlayer
  intervals,             \* subtitle script: the running polling intervals
  initializeCalls,       \* subtitle script: calls of initialize() that reached waitForVideoPlayer
  inFlight,              \* storage writers between their read and their write
  completed,             \* storage writers that have written
  patternAt,             \* replaceTextNode: the pattern the match loop is at
  lastIndex,             \* replaceTextNode: pattern.lastIndex
  pushed                 \* replaceTextNode: the matches pushed so far

cacheVars == <<cachedPatterns, cachedKnownWordsHash, compileCount>>
scanVars == <<originalText, patterns, uniqueMatches, fragment, pc, lastCall>>
loadVars == <<knownWords, settings>>
storeVars == <<storedWords, storedAuto, storedExcluded, importData>>
initVars == <<isInitialized, initPc>>
pageVars == <<processedNodes, dom, observer, records, timers, timeoutHandle>>
eventVars == <<pendingRefresh, pendingOnChanged, pageAdds, storageWrites>>
histVars == <<rootPasses, cleanSincePass, repeatReplaced, selfReplaced, selfPassed>>

ytVars == <<playerFound, playerCheckInterval, intervals, initializeCalls>>
writerVars == <<inFlight, completed>>
loopVars == <<patternAt, lastIndex, pushed>>
otherVars == <<ytVars, writerVars, loopVars>>

vars == <<storeVars, loadVars, initVars, cacheVars, pageVars, eventVars, histVars, scanVars,
          otherVars>>

\* No importWords is between its parse and its set
NoImport == [pending |-> FALSE, words |-> <<>>]

\* let settings = {}: no field is set
NoSettings == [autoTranslate |-> FALSE, excludedUrls |-> <<>>]

\* data.settings as loadData reads it from the storage
StoredSettings == [autoTranslate |-> storedAuto, excludedUrls |-> storedExcluded]

NoCall == [sameSignature |-> FALSE, cachedPatterns |-> NoPatterns,
           cachedKnownWordsHash |-> NullHash, compileCount |-> 0]

\* The page and content-script state in which only one text is scanned
\* The subtitle script before initialize(), and no storage writer at work
OtherIdle ==
  /\ playerFound = FALSE
  /\ playerCheckInterval = 0
  /\ intervals = {}
  /\ initializeCalls = 0
  /\ inFlight = {}
  /\ completed = {}
  /\ patternAt = 0
  /\ lastIndex = 0
  /\ pushed = <<>>

PageIdle ==
  /\ storedWords = <<>>
  /\ storedAuto = FALSE
  /\ storedExcluded = <<>>
  /\ importData = NoImport
  /\ settings = NoSettings
  /\ isInitialized = FALSE
  /\ initPc = "idle"
  /\ processedNodes = {}
  /\ dom = <<ElementNode("BODY", 0, FALSE, <<>>, TRUE)>>
  /\ observer = FALSE
  /\ records = <<>>
  /\ timers = {}
  /\ timeoutHandle = 0
  /\ pendingRefresh = 0
  /\ pendingOnChanged = 0
  /\ pageAdds = 0
  /\ storageWrites = 0
  /\ rootPasses = <<>>
  /\ cleanSincePass = FALSE
  /\ repeatReplaced = 0
  /\ selfReplaced = 0
  /\ selfPassed = FALSE

(***************************************************************************)
(* The scan of one text: patterns from getCompiledPatterns, then the match *)
(* collection and the fragment of replaceTextNode.                         *)
(***************************************************************************)
ScanInit ==
  /\ knownWords \in Vocabularies
  /\ originalText \in Texts
  /\ cachedPatterns = NoPatterns
  /\ cachedKnownWordsHash = NullHash
  /\ compileCount = 0
  /\ patterns = NoPatterns
  /\ uniqueMatches = <<>>
  /\ fragment = <<>>
  /\ pc = "start"
  /\ lastCall = NoCall
  /\ OtherIdle
  /\ PageIdle

ScanCompile ==
  /\ pc = "start"
  /\ LET r == getCompiledPatterns(knownWords, cachedPatterns, cachedKnownWordsHash, compileCount)
     IN /\ patterns' = r.patterns
        /\ cachedPatterns' = r.cachedPatterns
        /\ cachedKnownWordsHash' = r.cachedKnownWordsHash
        /\ compileCount' = r.compileCount
  /\ pc' = "compiled"
  /\ UNCHANGED <<originalText, uniqueMatches, fragment, lastCall>>
  /\ UNCHANGED <<storeVars, loadVars, initVars, pageVars, eventVars, histVars, otherVars>>

\* replaceTextNode(textNode, originalText, patterns, 'learn', stats) up to
\* the replacement in the document
ScanReplace ==
  /\ pc = "compiled"
  /\ uniqueMatches' = UniqueMatches(patterns.chunks, originalText)
  /\ fragment' = BuildFragment(originalText, patterns.chunks, knownWords)
  /\ pc' = "built"
  /\ UNCHANGED <<originalText, patterns, lastCall>>
  /\ UNCHANGED <<storeVars, loadVars, initVars, cacheVars, pageVars, eventVars, histVars, otherVars>>

ScanNext == ScanCompile \/ ScanReplace

SpecScan == ScanInit /\ [][ScanNext]_vars

(***************************************************************************)
(* The scan of a text of several words: up to MaxWords one-letter words    *)
(* with a separator between two of them.                                   *)
(***************************************************************************)
MaxWords == 4

Words == {"a", "b", "c"}

Separators == {" ", "."}

RECURSIVE WordTextsOf(_)
WordTextsOf(n) ==
  IF n = 1 THEN {<<w>> : w \in Words}
  ELSE {t \o <<sep, w>> : t \in WordTextsOf(n - 1), sep \in Separators, w \in Words}

WordTexts == UNION {WordTextsOf(n) : n \in 1..MaxWords}

\* Vocabularies of one-letter keys; the entry of "c" has an empty translation
WordVocabularies ==
  {VocabularyOf({<<"a">>}),
   VocabularyOf({<<"a">>, <<"b">>}),
   VocabularyOf({<<"a">>, <<"b">>, <<"c">>})}

WordsInit ==
  /\ knownWords \in WordVocabularies
  /\ originalText \in WordTexts
  /\ cachedPatterns = NoPatterns
  /\ cachedKnownWordsHash = NullHash
  /\ compileCount = 0
  /\ patterns = NoPatterns
  /\ uniqueMatches = <<>>
  /\ fragment = <<>>
  /\ pc = "start"
  /\ lastCall = NoCall
  /\ OtherIdle
  /\ PageIdle

SpecWords == WordsInit /\ [][ScanNext]_vars

(***************************************************************************)
(* The content script on a page: initialize, the message and storage       *)
(* listeners, the mutation observer with its debounce timer, and the page  *)
(* and the storage as environment.  The page is in the source language, so *)
(* determineMode gives 'learn'.                                            *)
(***************************************************************************)
MaxPageAdds == 1
MaxStorageWrites == 1

PageTexts == {<<"b">>, <<"b", ".", "a">>}

\* The vocabularies in storage when the page loads
PageVocabularies ==
  {VocabularyOf({<<"a">>}), VocabularyOf({<<".", "a">>, <<"a">>})}

\* The vocabularies a later write leaves in storage
WrittenVocabularies == {VocabularyOf({<<"a">>}), VocabularyOf({<<"b">>})}

\* The state a pass works on
PassState ==
  [dom |-> dom, processedNodes |-> processedNodes, records |-> records,
   observing |-> observer, replaced |-> <<>>, self |-> 0,
   cachedPatterns |-> cachedPatterns, cachedKnownWordsHash |-> cachedKnownWordsHash,
   compileCount |-> compileCount]

\* const patterns = getCompiledPatterns(knownWords): the returned list is
\* the cached list afterwards
WithCache(st, r) ==
  [st EXCEPT !.cachedPatterns = r.cachedPatterns,
             !.cachedKnownWordsHash = r.cachedKnownWordsHash,
             !.compileCount = r.compileCount]

WithCompiled(st, obj) ==
  WithCache(st, getCompiledPatterns(obj, st.cachedPatterns, st.cachedKnownWordsHash,
                                    st.compileCount))

\* The walk of translateKnownWords with the patterns of st1
WalkBody(st1, obj) == walkTextNodes(st1, Body, st1.cachedPatterns.chunks, obj)

translateKnownWords(st, obj) ==
  IF Len(obj) = 0 THEN st ELSE WalkBody(WithCompiled(st, obj), obj)

processPage(st, set, obj) ==
  IF ~set.autoTranslate THEN st ELSE translateKnownWords(st, obj)

\* A plausible slip: the pass of a subtree walks the whole page
WalkSubtreeWholePage(st1, root, obj) ==
  IF Len(st1.cachedPatterns.chunks) = 0 THEN st1
  ELSE walkTextNodes(st1, Body, st1.cachedPatterns.chunks, obj)

\* The walk of processSubtree with the patterns of st1
WalkSubtree(st1, root, obj) ==
  IF Len(st1.cachedPatterns.chunks) = 0 THEN st1
  ELSE walkTextNodes(st1, root, st1.cachedPatterns.chunks, obj)

\* A plausible slip: the subtree pass does not look at the setting
processSubtreeAlways(st, root, set, obj) == WalkSubtree(WithCompiled(st, obj), root, obj)

processSubtree(st, root, set, obj) ==
  IF ~set.autoTranslate THEN st ELSE WalkSubtree(WithCompiled(st, obj), root, obj)

\* mutatedRoots.forEach(root => processSubtree(root, mode)); self counts
\* the text nodes replaced under a root that the rewriter generated
\* st1, the walk state after processSubtree(root) on st, with the count
CountSelf(st, root, st1) ==
  IF st.dom[root].byPage THEN st1
  ELSE [st1 EXCEPT !.self = @ + Len(st1.replaced) - Len(st.replaced)]

RECURSIVE ProcessRoots(_, _, _, _, _)
ProcessRoots(st, roots, i, set, obj) ==
  IF i > Len(roots) THEN st
  ELSE ProcessRoots(CountSelf(st, roots[i], processSubtree(st, roots[i], set, obj)),
                    roots, i + 1, set, obj)

\* The element nodes of the records, each once, that are not in
\* processedNodes
RECURSIVE MutatedRoots(_, _, _)
MutatedRoots(recs, i, acc) ==
  IF i > Len(recs) THEN acc
  ELSE MutatedRoots(recs, i + 1,
         IF /\ dom[recs[i]].type = "element"
            /\ recs[i] \notin processedNodes
            /\ recs[i] \notin Range(acc)
         THEN Append(acc, recs[i]) ELSE acc)

PageInit ==
  /\ storedWords \in PageVocabularies
  /\ storedAuto \in BOOLEAN
  /\ storedExcluded = <<>>
  /\ importData = NoImport
  /\ knownWords = <<>>
  /\ settings = NoSettings
  /\ isInitialized = FALSE
  /\ initPc = "idle"
  /\ cachedPatterns = NoPatterns
  /\ cachedKnownWordsHash = NullHash
  /\ compileCount = 0
  /\ processedNodes = {}
  /\ \E text \in PageTexts :
       dom = WithBlock(<<ElementNode("BODY", 0, FALSE, <<>>, TRUE)>>, Body, "DIV", text)
  /\ observer = FALSE
  /\ records = <<>>
  /\ timers = {}
  /\ timeoutHandle = 0
  /\ pendingRefresh = 0
  /\ pendingOnChanged = 0
  /\ pageAdds = 0
  /\ storageWrites = 0
  /\ rootPasses = <<>>
  /\ cleanSincePass = FALSE
  /\ repeatReplaced = 0
  /\ selfReplaced = 0
  /\ selfPassed = FALSE
  /\ originalText = <<>>
  /\ patterns = NoPatterns
  /\ uniqueMatches = <<>>
  /\ fragment = <<>>
  /\ pc = "page"
  /\ lastCall = NoCall
  /\ OtherIdle

\* The results of a pass become the state
Adopt(st) ==
  /\ dom' = st.dom
  /\ processedNodes' = st.processedNodes
  /\ records' = st.records
  /\ cachedPatterns' = st.cachedPatterns
  /\ cachedKnownWordsHash' = st.cachedKnownWordsHash
  /\ compileCount' = st.compileCount

\* initialize() up to the callback of loadData
InitLoadData ==
  /\ initPc = "idle"
  /\ records = <<>>
  /\ settings' = StoredSettings
  /\ knownWords' = storedWords
  /\ initPc' = "loaded"
  /\ cleanSincePass' = (cleanSincePass /\ storedWords = knownWords)
  /\ UNCHANGED <<storeVars, isInitialized, cacheVars, pageVars, eventVars,
                 rootPasses, repeatReplaced, selfReplaced, selfPassed, scanVars, otherVars>>

\* A plausible slip: loadData() is called without await
LoadDataNotAwaited(at) == at \in {"idle", "loaded"}

\* await loadData(): initialize() goes on after the callback of loadData
LoadDataAwaited(at) == at = "loaded"

\* initialize() after its awaits: processPage, setupMutationObserver
InitFinish ==
  /\ LoadDataAwaited(initPc)
  /\ records = <<>>
  /\ initPc' = "done"
  /\ IF isUrlExcluded(PageUrl, settings.excludedUrls)
     THEN UNCHANGED <<isInitialized, cacheVars, pageVars, histVars>>
     ELSE /\ \E st \in {processPage(PassState, settings, knownWords)} :
               /\ Adopt(st)
               /\ repeatReplaced' = IF cleanSincePass THEN Len(st.replaced) ELSE 0
          /\ observer' = (observer \/ settings.autoTranslate)
          /\ cleanSincePass' = settings.autoTranslate
          /\ isInitialized' = TRUE
          /\ UNCHANGED <<timers, timeoutHandle, rootPasses, selfReplaced, selfPassed>>
  /\ UNCHANGED <<storeVars, loadVars, eventVars, scanVars, otherVars>>

\* The listener of refreshTranslations and storageChanged: loadData, then
\* processedNodes = new WeakSet() and processPage()
Refresh ==
  /\ pendingRefresh > 0
  /\ records = <<>>
  /\ pendingRefresh' = pendingRefresh - 1
  /\ settings' = StoredSettings
  /\ knownWords' = storedWords
  /\ \E st \in {processPage([PassState EXCEPT !.processedNodes = {}],
                              StoredSettings, storedWords)} :
        /\ Adopt(st)
        /\ repeatReplaced' = IF cleanSincePass /\ storedWords = knownWords
                             THEN Len(st.replaced) ELSE 0
  /\ cleanSincePass' = storedAuto
  /\ UNCHANGED <<storeVars, initVars, observer, timers, timeoutHandle,
                 pendingOnChanged, pageAdds, storageWrites,
                 rootPasses, selfReplaced, selfPassed, scanVars, otherVars>>

\* The chrome.storage.onChanged listener of the content script, for a
\* change of knownWords in the local area
StorageOnChanged ==
  /\ pendingOnChanged > 0
  /\ records = <<>>
  /\ pendingOnChanged' = pendingOnChanged - 1
  /\ cachedPatterns' = NoPatterns
  /\ cachedKnownWordsHash' = NullHash
  /\ UNCHANGED <<storeVars, loadVars, initVars, compileCount, pageVars,
                 pendingRefresh, pageAdds, storageWrites, histVars, scanVars, otherVars>>

\* A plausible slip: the pending timer is not cleared
AfterClearTimeoutKeep(ts, handle) == ts

\* clearTimeout(setupMutationObserver.timeout)
AfterClearTimeout(ts, handle) == {t \in ts : t.id # handle}

\* The callback of the MutationObserver on the records of one delivery
ObserverCallback ==
  /\ observer
  /\ records # <<>>
  /\ records' = <<>>
  /\ LET mutatedRoots == MutatedRoots(records, 1, <<>>)
         kept == AfterClearTimeout(timers, timeoutHandle)
         id == Min({i \in 1..(Cardinality(kept) + 1) : \A t \in kept : t.id # i})
     IN IF mutatedRoots # <<>>
        THEN /\ timers' = kept \cup {[id |-> id, roots |-> mutatedRoots]}
             /\ timeoutHandle' = id
        ELSE UNCHANGED <<timers, timeoutHandle>>
  /\ UNCHANGED <<storeVars, loadVars, initVars, cacheVars, processedNodes, dom,
                 observer, eventVars, histVars, scanVars, otherVars>>

\* The debounce timer t fires
TimerFire(t) ==
  /\ t \in timers
  /\ records = <<>>
  /\ timers' = timers \ {t}
  /\ \E st \in {ProcessRoots(PassState, t.roots, 1, settings, knownWords)} :
        /\ Adopt(st)
        /\ selfReplaced' = selfReplaced + st.self
        /\ cleanSincePass' = (cleanSincePass /\ st.replaced = <<>>)
  /\ rootPasses' = [r \in DOMAIN rootPasses |->
                      rootPasses[r] + Cardinality({i \in 1..Len(t.roots) : t.roots[i] = r})]
  /\ selfPassed' = (selfPassed \/ \E i \in 1..Len(t.roots) : ~dom[t.roots[i]].byPage)
  /\ UNCHANGED <<storeVars, loadVars, initVars, observer, timeoutHandle, eventVars,
                 repeatReplaced, scanVars, otherVars>>

\* The page appends an element with a text to the body
PageAppend(text) ==
  /\ pageAdds < MaxPageAdds
  /\ pageAdds' = pageAdds + 1
  /\ dom' = WithBlock(dom, Body, "DIV", text)
  /\ records' = IF observer THEN Append(records, Len(dom) + 1) ELSE records
  /\ rootPasses' = IF observer THEN ((Len(dom) + 1) :> 0) @@ rootPasses ELSE rootPasses
  /\ cleanSincePass' = FALSE
  /\ UNCHANGED <<storeVars, loadVars, initVars, cacheVars, processedNodes, observer,
                 timers, timeoutHandle, pendingRefresh, pendingOnChanged, storageWrites,
                 repeatReplaced, selfReplaced, selfPassed, scanVars, otherVars>>

\* The vocabulary in storage is replaced (addWord, removeWord, importWords,
\* translateAndSave); the background relays the change as storageChanged
StorageWriteWithin(words, max) ==
  /\ storageWrites < max
  /\ words # storedWords
  /\ storageWrites' = storageWrites + 1
  /\ storedWords' = words
  /\ pendingOnChanged' = pendingOnChanged + 1
  /\ pendingRefresh' = pendingRefresh + 1
  /\ UNCHANGED <<storedAuto, storedExcluded, importData, loadVars, initVars, cacheVars, pageVars, pageAdds,
                 histVars, scanVars, otherVars>>

StorageWrite(words) == StorageWriteWithin(words, MaxStorageWrites)

\* Another key of the local storage changes (settings, translation cache):
\* storageChanged is relayed, knownWords is the same
OtherStorageChange ==
  /\ storageWrites < MaxStorageWrites
  /\ storageWrites' = storageWrites + 1
  /\ pendingRefresh' = pendingRefresh + 1
  /\ UNCHANGED <<storeVars, loadVars, initVars, cacheVars, pageVars, pendingOnChanged,
                 pageAdds, histVars, scanVars, otherVars>>

Next ==
  \/ InitLoadData
  \/ InitFinish
  \/ Refresh
  \/ StorageOnChanged
  \/ ObserverCallback
  \/ \E t \in timers : TimerFire(t)
  \/ \E text \in PageTexts : PageAppend(text)
  \/ \E words \in WrittenVocabularies : StorageWrite(words)
  \/ OtherStorageChange

Spec == PageInit /\ [][Next]_vars

\* A step of Next that ends the initialization is an InitFinish step
InitFinishStep == initPc = "loaded" /\ records = <<>> /\ initPc' = "done"

\* A step of Next that takes a delivered message is a Refresh step
RefreshStep ==
  pendingRefresh > 0 /\ records = <<>> /\ pendingRefresh' = pendingRefresh - 1

\* A step of Next that takes a timer off without a delivery is a TimerFire step
TimerFireStep == records = <<>> /\ \E t \in timers : timers' = timers \ {t}

\* The tasks of the content script run when they are due: the event loop
\* runs every queued task, microtask and expired timer
FairSpec ==
  /\ Spec
  /\ WF_vars(InitLoadData)
  /\ WF_initPc(InitFinishStep)
  /\ WF_pendingRefresh(RefreshStep)
  /\ WF_vars(StorageOnChanged)
  /\ WF_vars(ObserverCallback)
  /\ WF_timers(TimerFireStep)

(***************************************************************************)
(* The vocabulary in chrome.storage.local under the operations of the      *)
(* StorageManager: addWord, removeWord, importWords.                       *)
(***************************************************************************)
\* Words handed to addWord and removeWord
StoreWords == {<<"a">>, <<"A">>, <<"b">>, <<".", "a">>}

\* The words objects of the files handed to importWords
ImportFiles ==
  {VocabularyOf(S) : S \in (SUBSET {<<"a">>, <<"b">>, <<"a", " ", "b">>}) \ {{}}}

\* knownWords[wordKey] = {...}: an own key keeps its place, a new key comes last
WithWord(obj, k) ==
  IF HasKey(obj, k)
  THEN [i \in 1..Len(obj) |-> IF obj[i].key = k THEN Entry(k) ELSE obj[i]]
  ELSE Append(obj, Entry(k))

\* delete knownWords[wordKey]
WithoutWord(obj, k) == SelectSeq(obj, LAMBDA e : e.key # k)

\* chrome.storage.local.set({ knownWords: importData.words })
Imported(stored, words) == words

StoreInit ==
  /\ knownWords = <<>>
  /\ originalText = <<>>
  /\ cachedPatterns = NoPatterns
  /\ cachedKnownWordsHash = NullHash
  /\ compileCount = 0
  /\ patterns = NoPatterns
  /\ uniqueMatches = <<>>
  /\ fragment = <<>>
  /\ pc = "store"
  /\ lastCall = NoCall
  /\ OtherIdle
  /\ PageIdle

\* StorageManager.addWord(word, translation, sourceText, pinyin)
AddWord(word) ==
  /\ HasKey(storedWords, toLowerCase(word)) \/ Len(storedWords) < MaxVocab
  /\ storedWords' = WithWord(storedWords, toLowerCase(word))
  /\ UNCHANGED <<storedAuto, storedExcluded, importData, loadVars, initVars, cacheVars,
                 pageVars, eventVars, histVars, scanVars, otherVars>>

\* StorageManager.removeWord(word)
RemoveWord(word) ==
  /\ HasKey(storedWords, toLowerCase(word))
  /\ storedWords' = WithoutWord(storedWords, toLowerCase(word))
  /\ UNCHANGED <<storedAuto, storedExcluded, importData, loadVars, initVars, cacheVars,
                 pageVars, eventVars, histVars, scanVars, otherVars>>

\* importWords up to its storage call: the file parses and has a words object
ImportParse(words) ==
  /\ ~importData.pending
  /\ importData' = [pending |-> TRUE, words |-> words]
  /\ UNCHANGED <<storedWords, storedAuto, storedExcluded, loadVars, initVars, cacheVars,
                 pageVars, eventVars, histVars, scanVars, otherVars>>

\* importWords: chrome.storage.local.set and its callback
ImportSet ==
  /\ importData.pending
  /\ storedWords' = Imported(storedWords, importData.words)
  /\ importData' = NoImport
  /\ UNCHANGED <<storedAuto, storedExcluded, loadVars, initVars, cacheVars,
                 pageVars, eventVars, histVars, scanVars, otherVars>>

StoreNext ==
  \/ \E word \in StoreWords : AddWord(word)
  \/ \E word \in StoreWords : RemoveWord(word)
  \/ \E words \in ImportFiles : ImportParse(words)
  \/ ImportSet

SpecStore == StoreInit /\ [][StoreNext]_vars

(***************************************************************************)
(* The content script on a page whose address the exclusion list of the    *)
(* settings may name.                                                      *)
(***************************************************************************)
\* The lists in storage: one without and one with an entry for the page
ExcludedLists ==
  {<<<<"b", ".", "a">>>>, <<<<"b", ".", "a">>, <<"A", ".", "b", " ">>>>}

ExcludedInit ==
  /\ storedWords = VocabularyOf({<<"a">>})
  /\ storedAuto = TRUE
  /\ storedExcluded \in ExcludedLists
  /\ importData = NoImport
  /\ knownWords = <<>>
  /\ settings = NoSettings
  /\ isInitialized = FALSE
  /\ initPc = "idle"
  /\ cachedPatterns = NoPatterns
  /\ cachedKnownWordsHash = NullHash
  /\ compileCount = 0
  /\ processedNodes = {}
  /\ \E text \in PageTexts :
       dom = WithBlock(<<ElementNode("BODY", 0, FALSE, <<>>, TRUE)>>, Body, "DIV", text)
  /\ observer = FALSE
  /\ records = <<>>
  /\ timers = {}
  /\ timeoutHandle = 0
  /\ pendingRefresh = 0
  /\ pendingOnChanged = 0
  /\ pageAdds = 0
  /\ storageWrites = 0
  /\ rootPasses = <<>>
  /\ cleanSincePass = FALSE
  /\ repeatReplaced = 0
  /\ selfReplaced = 0
  /\ selfPassed = FALSE
  /\ originalText = <<>>
  /\ patterns = NoPatterns
  /\ uniqueMatches = <<>>
  /\ fragment = <<>>
  /\ pc = "page"
  /\ lastCall = NoCall
  /\ OtherIdle

SpecExcluded == ExcludedInit /\ [][Next]_vars

(***************************************************************************)
(* The content script on a page with the blocks the walker passes over: a  *)
(* code element, an editable element, a text of white space; the           *)
(* vocabulary may be empty and the popup may switch autoTranslate.         *)
(***************************************************************************)
Block(tag, editable, text) == [tag |-> tag, editable |-> editable, text |-> text]

Blocks ==
  {Block("DIV", FALSE, <<"a">>), Block("CODE", FALSE, <<"a">>),
   Block("DIV", TRUE, <<"a">>), Block("DIV", FALSE, <<" ">>)}

\* The pages at load time
BlockPages ==
  {<<Block("DIV", FALSE, <<"a">>), Block("DIV", FALSE, <<"a">>)>>,
   <<Block("CODE", FALSE, <<"a">>), Block("DIV", TRUE, <<"a">>)>>}

BlockVocabularies == {<<>>, VocabularyOf({<<"a">>})}

\* A new element of block b with its text, appended to parent
WithBlockOf(d, parent, b) ==
  [WithBlock(d, parent, b.tag, b.text) EXCEPT ![Len(d) + 1].editable = b.editable]

BlocksInit ==
  /\ storedWords \in BlockVocabularies
  /\ storedAuto \in BOOLEAN
  /\ storedExcluded = <<>>
  /\ importData = NoImport
  /\ knownWords = <<>>
  /\ settings = NoSettings
  /\ isInitialized = FALSE
  /\ initPc = "idle"
  /\ cachedPatterns = NoPatterns
  /\ cachedKnownWordsHash = NullHash
  /\ compileCount = 0
  /\ processedNodes = {}
  /\ \E page \in BlockPages :
       dom = WithBlockOf(WithBlockOf(<<ElementNode("BODY", 0, FALSE, <<>>, TRUE)>>,
                                     Body, page[1]), Body, page[2])
  /\ observer = FALSE
  /\ records = <<>>
  /\ timers = {}
  /\ timeoutHandle = 0
  /\ pendingRefresh = 0
  /\ pendingOnChanged = 0
  /\ pageAdds = 0
  /\ storageWrites = 0
  /\ rootPasses = <<>>
  /\ cleanSincePass = FALSE
  /\ repeatReplaced = 0
  /\ selfReplaced = 0
  /\ selfPassed = FALSE
  /\ originalText = <<>>
  /\ patterns = NoPatterns
  /\ uniqueMatches = <<>>
  /\ fragment = <<>>
  /\ pc = "page"
  /\ lastCall = NoCall
  /\ OtherIdle

\* The page appends an element of block b to the body
PageAppendBlock(b) ==
  /\ pageAdds < MaxPageAdds
  /\ pageAdds' = pageAdds + 1
  /\ dom' = WithBlockOf(dom, Body, b)
  /\ records' = IF observer THEN Append(records, Len(dom) + 1) ELSE records
  /\ rootPasses' = IF observer THEN ((Len(dom) + 1) :> 0) @@ rootPasses ELSE rootPasses
  /\ cleanSincePass' = FALSE
  /\ UNCHANGED <<storeVars, loadVars, initVars, cacheVars, processedNodes, observer,
                 timers, timeoutHandle, pendingRefresh, pendingOnChanged, storageWrites,
                 repeatReplaced, selfReplaced, selfPassed, scanVars, otherVars>>

\* The popup saves the settings with autoTranslate = auto
\* (StorageManager.updateSettings); the background relays the change as
\* storageChanged
SettingsWrite(auto) ==
  /\ storageWrites < MaxStorageWrites
  /\ auto # storedAuto
  /\ storageWrites' = storageWrites + 1
  /\ storedAuto' = auto
  /\ pendingRefresh' = pendingRefresh + 1
  /\ UNCHANGED <<storedWords, storedExcluded, importData, loadVars, initVars, cacheVars, pageVars,
                 pendingOnChanged,
                 pageAdds, histVars, scanVars, otherVars>>

BlocksNext ==
  \/ InitLoadData
  \/ InitFinish
  \/ Refresh
  \/ StorageOnChanged
  \/ ObserverCallback
  \/ \E t \in timers : TimerFire(t)
  \/ \E b \in Blocks : PageAppendBlock(b)
  \/ \E words \in BlockVocabularies : StorageWrite(words)
  \/ \E auto \in BOOLEAN : SettingsWrite(auto)

SpecBlocks == BlocksInit /\ [][BlocksNext]_vars

(***************************************************************************)
(* The pattern cache under loads of the vocabulary, invalidations and      *)
(* calls of getCompiledPatterns.                                           *)
(***************************************************************************)
MaxCompiles == 3

\* Loaded vocabularies: one key set in two insertion orders among them
CacheVocabularies ==
  {<<>>,
   <<Entry(<<"a">>)>>,
   <<Entry(<<"b">>)>>,
   <<Entry(<<"a">>), Entry(<<".", "a">>)>>,
   <<Entry(<<".", "a">>), Entry(<<"a">>)>>}

CacheInit ==
  /\ knownWords \in CacheVocabularies
  /\ originalText = <<>>
  /\ cachedPatterns = NoPatterns
  /\ cachedKnownWordsHash = NullHash
  /\ compileCount = 0
  /\ patterns = NoPatterns
  /\ uniqueMatches = <<>>
  /\ fragment = <<>>
  /\ pc = "cache"
  /\ lastCall = NoCall
  /\ OtherIdle
  /\ PageIdle

\* loadData() brings another vocabulary
CacheLoad(words) ==
  /\ words # knownWords
  /\ knownWords' = words
  /\ pc' = "cache"
  /\ UNCHANGED <<settings, storeVars, initVars, cacheVars, pageVars, eventVars, histVars,
                 originalText, patterns, uniqueMatches, fragment, lastCall, otherVars>>

\* The chrome.storage.onChanged listener drops the cache
CacheInvalidate ==
  /\ cachedPatterns # NoPatterns
  /\ cachedPatterns' = NoPatterns
  /\ cachedKnownWordsHash' = NullHash
  /\ pc' = "cache"
  /\ UNCHANGED <<loadVars, storeVars, initVars, compileCount, pageVars, eventVars, histVars,
                 originalText, patterns, uniqueMatches, fragment, lastCall, otherVars>>

\* A caller asks for the patterns of the loaded vocabulary
CacheCall ==
  /\ compileCount < MaxCompiles
  /\ LET r == getCompiledPatterns(knownWords, cachedPatterns, cachedKnownWordsHash, compileCount)
     IN /\ patterns' = r.patterns
        /\ cachedPatterns' = r.cachedPatterns
        /\ cachedKnownWordsHash' = r.cachedKnownWordsHash
        /\ compileCount' = r.compileCount
  /\ lastCall' = [sameSignature |-> cachedKnownWordsHash = KnownWordsHash(knownWords),
                  cachedPatterns |-> cachedPatterns,
                  cachedKnownWordsHash |-> cachedKnownWordsHash,
                  compileCount |-> compileCount]
  /\ pc' = "called"
  /\ UNCHANGED <<loadVars, storeVars, initVars, pageVars, eventVars, histVars,
                 originalText, uniqueMatches, fragment, otherVars>>

CacheNext ==
  \/ \E words \in CacheVocabularies : CacheLoad(words)
  \/ CacheInvalidate
  \/ CacheCall

SpecCache == CacheInit /\ [][CacheNext]_vars

(***************************************************************************)
(* Properties of the scan of one text (SpecScan).                          *)
(***************************************************************************)
Keys == Range(ObjectKeys(knownWords))

\* Key k stands at offset i of text, letter case ignored, between two word
\* boundaries
OccursAt(k, text, i) ==
  /\ i + Len(k) <= Len(text)
  /\ \A j \in 1..Len(k) : ToLowerChar(text[i + j]) = ToLowerChar(k[j])
  /\ WordBoundary(text, i)
  /\ WordBoundary(text, i + Len(k))

Occurrences(text) ==
  {o \in Keys \X (0..Len(text)) : OccursAt(o[1], text, o[2])}

Scanned == pc = "built"

\* Offsets of text covered by one of the spans
Covered(spans) ==
  {i \in 0..(Len(originalText) - 1) :
     \E k \in 1..Len(spans) : spans[k].index <= i /\ i < spans[k].endIndex}

RECURSIVE CharsAt(_, _, _)
CharsAt(text, i, keep) ==
  IF i >= Len(text) THEN <<>>
  ELSE (IF i \in keep THEN <<text[i + 1]>> ELSE <<>>) \o CharsAt(text, i + 1, keep)

\* The characters of the text outside every kept match, in order
NonMatchedText == CharsAt(originalText, 0, (0..(Len(originalText) - 1)) \ Covered(uniqueMatches))

\* The plain-text runs of the fragment, in order
PlainText(frag) ==
  Concat([i \in 1..Len(frag) |-> IF frag[i].type = "text" THEN frag[i].text ELSE <<>>])

\* C1: the text outside the matched occurrences is, character for
\* character and in order, the text of the plain runs of the fragment.
C1_NonMatchedTextPreserved ==
  pc = "built" => PlainText(fragment) = NonMatchedText

\* C2: the kept spans are raw matches taken whole, they are sorted by
\* start and do not overlap, and a raw match is dropped only if it starts
\* inside a kept span that starts no later than it.
C2_KeptSpans ==
  Scanned =>
    LET raw == RawMatches(patterns.chunks, originalText)
        um == uniqueMatches
    IN /\ Range(um) \subseteq Range(raw)
       /\ \A k \in 1..(Len(um) - 1) : um[k].endIndex <= um[k + 1].index
       /\ \A r \in 1..Len(raw) :
            \/ raw[r] \in Range(um)
            \/ \E k \in 1..Len(um) :
                 /\ um[k].index <= raw[r].index
                 /\ raw[r].index < um[k].endIndex

C2_Witness ==
  /\ Scanned
  /\ Len(uniqueMatches) >= 1
  /\ Len(RawMatches(patterns.chunks, originalText)) > Len(uniqueMatches)

\* C8: a vocabulary with the same keys inserted in another order gives the
\* same spans for the text.
C8_InsertionOrder ==
  Scanned =>
    \A f \in Permutations(1..Len(knownWords)) :
      LET other == [i \in 1..Len(knownWords) |-> knownWords[f[i]]]
      IN UniqueMatches(CompileChunks(other), originalText) = uniqueMatches

C8_Witness ==
  /\ Scanned
  /\ ObjectKeys(knownWords) # JsSort(ObjectKeys(knownWords))
  /\ \E o1, o2 \in Occurrences(originalText) : o1[1] # o2[1] /\ o1[2] = o2[2]
  /\ uniqueMatches # <<>>

\* C9: a text with exactly one occurrence of a key, and of no other key,
\* gives exactly one span, the span of that occurrence.
C9_SingleOccurrence ==
  Scanned =>
    \A o \in Occurrences(originalText) :
      Occurrences(originalText) = {o} =>
        uniqueMatches = <<[text |-> Slice(originalText, o[2], o[2] + Len(o[1])),
                           index |-> o[2],
                           endIndex |-> o[2] + Len(o[1])]>>

C9_Witness ==
  /\ Scanned
  /\ Cardinality(Occurrences(originalText)) = 1
  /\ Len(knownWords) >= 2
  /\ Len(uniqueMatches) = 1
  /\ uniqueMatches[1].text # toLowerCase(uniqueMatches[1].text)

\* C10: a kept span is as long as the longest key occurring at its start.
C10_LongestMatchKept ==
  Scanned =>
    \A k \in 1..Len(uniqueMatches) :
      \A key \in Keys :
        OccursAt(key, originalText, uniqueMatches[k].index) =>
          Len(key) <= uniqueMatches[k].endIndex - uniqueMatches[k].index

(***************************************************************************)
(* Properties of the content script on a page (Spec, FairSpec).            *)
(***************************************************************************)
\* No mutation record waits for delivery and no debounce timer is pending
Idle == records = <<>> /\ timers = {}

\* C3: an element the page added under the observed body is passed to
\* processSubtree at most once, and exactly once when no delivery and no
\* timer is pending any more.
C3_EveryRootOnce ==
  /\ \A r \in DOMAIN rootPasses : rootPasses[r] <= 1
  /\ Idle => \A r \in DOMAIN rootPasses : rootPasses[r] = 1

\* C4: a processPage that follows a processPage, with the same vocabulary
\* and no change of the page in between, replaces no text node.
C4_SecondRunNoReplacement == repeatReplaced = 0

\* C5: no text node is ever replaced under a root that the rewriter itself
\* generated, and from some time on no delivery and no debounce timer is
\* pending.
C5_NoLoop == [](selfReplaced = 0) /\ <>[]Idle

C5_Witness == selfPassed /\ Idle /\ selfReplaced = 0

\* A text node of the document that walkTextNodes accepts and that holds an
\* occurrence of a key of the loaded vocabulary
EligibleWithKey(n) ==
  /\ dom[n].type = "text"
  /\ InDocument(dom, n)
  /\ AcceptNode(dom, n)
  /\ Occurrences(dom[n].text) # {}

\* C6: once every vocabulary change has been delivered and handled on an
\* initialized page, and the page has not changed since the last processPage,
\* no eligible text node of the page still holds a key of the vocabulary in
\* storage.
C6_RefreshRewritesAll ==
  (/\ isInitialized
   /\ storageWrites > 0
   /\ pendingRefresh = 0
   /\ settings.autoTranslate
   /\ cleanSincePass
   /\ Idle)
  => /\ knownWords = storedWords
     /\ \A n \in 1..Len(dom) : ~EligibleWithKey(n)

(***************************************************************************)
(* Properties of the pattern cache (SpecCache).                            *)
(***************************************************************************)
\* C7: a call whose signature equals the cached one returns the cached list
\* and compiles nothing; any other call compiles a new list and caches it
\* with its signature.
C7_CacheReuse ==
  pc = "called" =>
    IF lastCall.sameSignature
    THEN /\ patterns = lastCall.cachedPatterns
         /\ compileCount = lastCall.compileCount
         /\ cachedPatterns = lastCall.cachedPatterns
         /\ cachedKnownWordsHash = lastCall.cachedKnownWordsHash
    ELSE /\ compileCount = lastCall.compileCount + 1
         /\ patterns.id = compileCount
         /\ patterns.chunks = CompileChunks(knownWords)
         /\ cachedPatterns = patterns
         /\ cachedKnownWordsHash = KnownWordsHash(knownWords)

C7_Witness ==
  /\ pc = "called"
  /\ lastCall.sameSignature
  /\ compileCount >= 2
  /\ ObjectKeys(knownWords) # JsSort(ObjectKeys(knownWords))

(***************************************************************************)
(* Properties of the units of a scanned text (SpecWords, SpecScan).        *)
(***************************************************************************)
\* The generated units of the fragment, in order
Units == SelectSeq(fragment, LAMBDA u : u.type = "span")

\* The translation of the entry whose key is the lowercased text of match j
TranslationAt(j) == Lookup(knownWords, toLowerCase(uniqueMatches[j].text)).translation

\* The translations of the matches i .. i + n - 1, concatenated
JoinedAt(i, n) == Concat([j \in 1..n |-> TranslationAt(i + j - 1)])

\* The number of matches that the unit at match i takes when the 3-word
\* concatenation is looked up before the 2-word one and nothing else is
RefLength(i) ==
  IF i + 2 <= Len(uniqueMatches) /\ JoinedAt(i, 3) \in CompoundKeys THEN 3
  ELSE IF i + 1 <= Len(uniqueMatches) /\ JoinedAt(i, 2) \in CompoundKeys THEN 2
  ELSE 1

\* The surface words of the units from match i on, under RefLength
RECURSIVE RefOriginals(_)
RefOriginals(i) ==
  IF i > Len(uniqueMatches) THEN <<>>
  ELSE <<[j \in 1..RefLength(i) |-> uniqueMatches[i + j - 1].text]>> \o
       RefOriginals(i + RefLength(i))

\* C11: the units of a scanned text take their matches as the longest-first
\* lookup with a lookahead of two gives them: three matches when the three
\* translations are a dictionary key, else two when the two are, else one.
C11_LongestFirst ==
  Scanned =>
    /\ Len(Units) = Len(RefOriginals(1))
    /\ \A u \in 1..Len(Units) : Units[u].original = Join(RefOriginals(1)[u], <<" ">>)

C11_Witness ==
  /\ Scanned
  /\ Len(uniqueMatches) >= 3
  /\ JoinedAt(1, 2) \in CompoundKeys
  /\ JoinedAt(1, 3) \in CompoundKeys
  /\ Units[1].original = Join([j \in 1..3 |-> uniqueMatches[j].text], <<" ">>)

\* The surface words of a unit (the keys here hold no space)
RECURSIVE SplitWords(_, _)
SplitWords(str, cur) ==
  IF str = <<>> THEN <<cur>>
  ELSE IF Head(str) = " " THEN <<cur>> \o SplitWords(Tail(str), <<>>)
  ELSE SplitWords(Tail(str), Append(cur, Head(str)))

WordsOf(u) == SplitWords(u.original, <<>>)

C13_RepeatedKey ==
  \A k \in Keys :
    (/\ Scanned
     /\ Occurrences(originalText) # {}
     /\ \A o \in Occurrences(originalText) : o[1] = k
     /\ Concat(<<TranslationOf(k), TranslationOf(k)>>) \notin CompoundKeys
     /\ Concat(<<TranslationOf(k), TranslationOf(k), TranslationOf(k)>>) \notin CompoundKeys)
    => /\ Len(Units) = Cardinality(Occurrences(originalText))
       /\ \A j \in 1..Len(Units) :
            /\ Units[j].compound = <<>>
            /\ toLowerCase(Units[j].original) = k
            /\ <<k, uniqueMatches[j].index>> \in Occurrences(originalText)
            /\ Units[j].original =
                 Slice(originalText, uniqueMatches[j].index, uniqueMatches[j].index + Len(k))
       /\ \A i, j \in 1..Len(uniqueMatches) :
            i < j => uniqueMatches[i].index < uniqueMatches[j].index

C13_Witness ==
  /\ Scanned
  /\ Len(Units) = 3
  /\ \A j \in 1..3 : Units[j].original = <<"a">> /\ Units[j].compound = <<>>

\* The first match of unit u: the matches of the units before it are taken
RECURSIVE FirstMatchOf(_)
FirstMatchOf(u) == IF u = 1 THEN 1 ELSE FirstMatchOf(u - 1) + Len(WordsOf(Units[u - 1]))

\* The text of the page from the first to the last match of unit u
SurfaceOf(u) ==
  Slice(originalText,
        uniqueMatches[FirstMatchOf(u)].index,
        uniqueMatches[FirstMatchOf(u) + Len(WordsOf(Units[u])) - 1].endIndex)

\* C14: every unit of a scanned text has as data-original the text of the
\* page it stands for, shows the translation of the entry whose key is that
\* text lowercased, and carries the pinyin of that entry when it has one.
C14_AccurateAttributes ==
  Scanned =>
    \A u \in 1..Len(Units) :
      /\ Units[u].original = SurfaceOf(u)
      /\ HasKey(knownWords, toLowerCase(SurfaceOf(u)))
      /\ Units[u].text = Lookup(knownWords, toLowerCase(SurfaceOf(u))).translation
      /\ Lookup(knownWords, toLowerCase(SurfaceOf(u))).pinyin # <<>>
           => Lookup(knownWords, toLowerCase(SurfaceOf(u))).pinyin \in Range(Units[u].tooltip)

(***************************************************************************)
(* Properties of the replacement of a text node on a page (Spec).          *)
(***************************************************************************)
\* The text nodes that the step takes out of their parent
Detached ==
  {n \in 1..Len(dom) :
     dom[n].type = "text" /\ dom[n].parent # 0 /\ dom'[n].parent = 0}

\* The nodes that the step creates under the parent of n, in child order
PlacedFor(n) ==
  SelectSeq(dom'[dom[n].parent].childNodes, LAMBDA k : k > Len(dom))

\* The text of the page that node k of d stands for: the text of a text
\* node, the data-original of a unit
StandsFor(d, k) == IF d[k].type = "text" THEN d[k].text ELSE d[k].original

\* C15: a step that takes a text node out of the document puts, in the
\* same step and at its place among the children of its parent, the whole
\* fragment for its text, and an observing MutationObserver is handed every
\* node of the fragment; nothing else of the parent's children changes.
C15_AllOrNothing ==
  [][\A n \in Detached :
       /\ PlacedFor(n) # <<>>
       /\ \E at \in 1..Len(dom[dom[n].parent].childNodes) :
            /\ dom[dom[n].parent].childNodes[at] = n
            /\ dom'[dom[n].parent].childNodes =
                 SubSeq(dom[dom[n].parent].childNodes, 1, at - 1)
                   \o PlacedFor(n)
                   \o SubSeq(dom[dom[n].parent].childNodes, at + 1,
                             Len(dom[dom[n].parent].childNodes))
       /\ Concat([i \in 1..Len(PlacedFor(n)) |-> StandsFor(dom', PlacedFor(n)[i])])
            = dom[n].text
       /\ \A k \in (Len(dom) + 1)..Len(dom') :
            dom'[k].parent = dom[n].parent => k \in Range(PlacedFor(n))
       /\ (observer /\ InDocument(dom, n)) =>
            \A i \in 1..Len(PlacedFor(n)) : PlacedFor(n)[i] \in Range(records')
    ]_vars

\* A text node of the page has been replaced by a plain run and a unit
C15_Witness ==
  \E n \in 1..Len(dom) :
    /\ dom[n].type = "text" /\ dom[n].byPage /\ dom[n].parent = 0
    /\ \E par \in 1..Len(dom) :
         /\ Len(dom[par].childNodes) >= 2
         /\ \E i, j \in 1..Len(dom[par].childNodes) :
              /\ dom[dom[par].childNodes[i]].type = "text"
              /\ ~dom[dom[par].childNodes[i]].byPage
              /\ dom[dom[par].childNodes[j]].translated

(***************************************************************************)
(* Properties of the passes on a page with blocks (SpecBlocks, Spec).      *)
(***************************************************************************)
\* Node k of the document d is root or lies under it
Under(d, k, root) == k = root \/ root \in Ancestors(d, k)

\* The step is the firing of the debounce timer t
Fires(t) == t \in timers /\ t \notin timers' /\ records = <<>>

\* C16: the firing of a debounce timer changes no node of the page but
\* nodes of the subtrees of the roots of its batch: every text node it
\* takes out of the document was under one of these roots.
C16_OnlyAddedSubtrees ==
  [][\A t \in timers :
       Fires(t) =>
         \A k \in 1..Len(dom) :
           dom'[k] # dom[k] => \E i \in 1..Len(t.roots) : Under(dom, k, t.roots[i])
    ]_vars

\* A timer has fired on an added element and replaced its text, and
\* outside that element the page holds an accepted, unprocessed text with
\* a key
C16_Witness ==
  /\ settings.autoTranslate
  /\ \E r \in DOMAIN rootPasses :
       /\ rootPasses[r] >= 1
       /\ \E c \in 1..Len(dom[r].childNodes) : dom[dom[r].childNodes[c]].translated
       /\ \E n \in 1..Len(dom) :
            /\ EligibleWithKey(n)
            /\ n \notin processedNodes
            /\ ~Under(dom, n, r)

\* C17: a text node is taken out of the document only when a key of the
\* vocabulary of the pass occurs in its text, and no step changes the text
\* of a node: a text without occurrence stays the node it was, whatever the
\* number of passes.
C17_NoOccurrenceNoChange ==
  [][/\ \A n \in Detached :
          \E k \in Range(ObjectKeys(knownWords')), i \in 0..Len(dom[n].text) :
            OccursAt(k, dom[n].text, i)
     /\ \A n \in 1..Len(dom) : dom'[n].text = dom[n].text
    ]_vars

\* After the first pass and a repeated pass with a vocabulary, a text of
\* the page without occurrence is in the document, not processed
C17_Witness ==
  /\ isInitialized
  /\ settings.autoTranslate
  /\ storageWrites > 0
  /\ pendingRefresh = 0
  /\ compileCount >= 1
  /\ knownWords # <<>>
  /\ \E n \in 1..Len(dom) :
       /\ dom[n].type = "text" /\ dom[n].byPage
       /\ InDocument(dom, n) /\ AcceptNode(dom, n)
       /\ Occurrences(dom[n].text) = {}
       /\ n \notin processedNodes

\* C18: while the loaded vocabulary is empty no step of the content script
\* changes the document, and the pattern list that the firing of a timer
\* leaves in the cache is empty.
C18_EmptyVocabulary ==
  [][(knownWords' = <<>> /\ pageAdds' = pageAdds) =>
       /\ dom' = dom
       /\ \A t \in timers :
            (Fires(t) /\ settings.autoTranslate) =>
              /\ cachedPatterns'.id # 0
              /\ cachedPatterns'.chunks = <<>>
    ]_vars

\* With an empty vocabulary and translation on, a timer has fired on an
\* added element whose text is still in place, and the cached list is empty
C18_Witness ==
  /\ isInitialized
  /\ settings.autoTranslate
  /\ knownWords = <<>>
  /\ cachedPatterns.id # 0
  /\ cachedPatterns.chunks = <<>>
  /\ \E r \in DOMAIN rootPasses :
       /\ rootPasses[r] >= 1
       /\ dom[r].tag = "DIV" /\ ~dom[r].editable
       /\ \E c \in 1..Len(dom[r].childNodes) :
            dom[dom[r].childNodes[c]].byPage /\ dom[dom[r].childNodes[c]].text = <<"a">>

C21_ExcludedPageUntouched ==
  (initPc = "done" /\ isUrlExcluded(PageUrl, storedExcluded)) =>
    \A n \in 1..Len(dom) : (dom[n].type = "text" /\ dom[n].byPage) => dom[n].parent # 0

(***************************************************************************)
(* Properties of the stored vocabulary (SpecStore).                        *)
(***************************************************************************)
\* C22: the step that stores an imported file keeps every stored entry
\* whose key the file does not have, with the same data.
C22_ImportMerges ==
  [][(importData.pending /\ ~importData'.pending) =>
       \A i \in 1..Len(storedWords) :
         ~HasKey(importData.words, storedWords[i].key) =>
           \E j \in 1..Len(storedWords') : storedWords'[j] = storedWords[i]
    ]_vars

(***************************************************************************)
(* The subtitle path against the scan of a page text (SpecScan).           *)
(***************************************************************************)
\* The stretches of the text that translateText replaces by a translation
SubtitleSpans ==
  {<<translateText(originalText, knownWords)[p].index,
     translateText(originalText, knownWords)[p].endIndex>> :
     p \in {q \in 1..Len(translateText(originalText, knownWords)) :
              translateText(originalText, knownWords)[q].type = "span"}}

\* The stretches of the text that the page scan replaces
PageSpans ==
  {<<uniqueMatches[m].index, uniqueMatches[m].endIndex>> : m \in 1..Len(uniqueMatches)}

\* C23: for the text and the vocabulary of a scan, translateText replaces
\* the stretches of the text that the page scan replaces, and no other.
C23_SubtitleSameAsPage == Scanned => SubtitleSpans = PageSpans

(***************************************************************************)
(* Properties of the mutation observer and its debounce timer (Spec).      *)
(***************************************************************************)
\* C24: at most one debounce timer is pending, and it is the one that
\* setupMutationObserver.timeout names.
C24_OneTimerPending ==
  /\ Cardinality(timers) <= 1
  /\ \A t \in timers : t.id = timeoutHandle

\* A callback has found a timer pending and has left one timer, for its
\* own batch: the element r was in the batch of the timer that it cleared
C24_Witness ==
  /\ records = <<>>
  /\ Cardinality(timers) = 1
  /\ \E r \in DOMAIN rootPasses :
       /\ rootPasses[r] = 0
       /\ \A t \in timers : r \notin Range(t.roots)

\* C25: the roots of a pending debounce timer are elements that the page
\* added: no element that the rewriter generated is among them.
C25_NoOwnOutputInBatch ==
  \A t \in timers : \A i \in 1..Len(t.roots) : dom[t.roots[i]].byPage

(***************************************************************************)
(* The overlap filter against the order of the keys (SpecScan).            *)
(***************************************************************************)
\* The orders of a key list
Orders(wordList) ==
  LET n == Len(wordList)
  IN {[i \in 1..n |-> wordList[f[i]]] :
        f \in {g \in [1..n -> 1..n] : \A i, j \in 1..n : g[i] = g[j] => i = j}}

\* The offsets of a span list
Offsets(matches) == [i \in 1..Len(matches) |-> <<matches[i].index, matches[i].endIndex>>]

\* C26: the spans that the scan keeps are the same for every order of the
\* keys in the chunk loop, that is for every assignment of the keys to the
\* chunk patterns and every order of the patterns.
C26_ChunkOrderIndependent ==
  Scanned =>
    \A wordList \in Orders(ObjectKeys(knownWords)) :
       Offsets(UniqueMatches(ChunkLoop(wordList), originalText)) = Offsets(uniqueMatches)

(***************************************************************************)
(* The processed markers of the rewriter (Spec).                           *)
(***************************************************************************)
\* C27: after the pass of initialize() over the page, with no change of the
\* page or of the storage since, every text node of the page that the walk
\* accepts is marked processed, the nodes without a match included.
C27_ScannedIsProcessed ==
  (/\ isInitialized
   /\ settings.autoTranslate
   /\ knownWords # <<>>
   /\ storageWrites = 0
   /\ pageAdds = 0) =>
    \A n \in 1..Len(dom) :
       (/\ dom[n].type = "text" /\ dom[n].byPage
        /\ InDocument(dom, n) /\ AcceptNode(dom, n)) => n \in processedNodes

\* The content script while the vocabulary is saved more than once: the
\* page adds nothing
MaxVocabularyWrites == 2

ReloadNext ==
  \/ InitLoadData
  \/ InitFinish
  \/ Refresh
  \/ StorageOnChanged
  \/ ObserverCallback
  \/ \E t \in timers : TimerFire(t)
  \/ \E words \in WrittenVocabularies : StorageWriteWithin(words, MaxVocabularyWrites)

SpecReload == PageInit /\ [][ReloadNext]_vars

\* The step compiles the patterns for another key set than the one of the
\* patterns in the cache
RebuiltForNewKeys ==
  /\ compileCount' > compileCount
  /\ cachedKnownWordsHash # NullHash
  /\ cachedKnownWordsHash' # cachedKnownWordsHash

\* C28: a step that rebuilds the patterns because the key set has changed
\* keeps none of the processed markers.
C28_RebuildInvalidatesMarkers ==
  [][RebuiltForNewKeys => processedNodes' \cap processedNodes = {}]_vars

(***************************************************************************)
(* The generated units under later passes (Spec).                          *)
(***************************************************************************)
\* The elements marked data-translated above node n
UnitsAbove(d, n) == {p \in Ancestors(d, n) : d[p].translated}

\* C29: no step replaces a text node that stands inside an element marked
\* data-translated, and after every step no marked element stands inside
\* another marked element.
C29_GeneratedNeverRescanned ==
  [][/\ \A n \in Detached : UnitsAbove(dom, n) = {}
     /\ \A e \in 1..Len(dom') : dom'[e].translated => UnitsAbove(dom', e) = {}]_vars

\* A unit whose shown translation holds a key of the loaded vocabulary is
\* in the document after a later pass over the page, and its text node is
\* in place
C29_Witness ==
  /\ isInitialized
  /\ storageWrites > 0
  /\ pendingRefresh = 0
  /\ settings.autoTranslate
  /\ \E n \in 1..Len(dom) :
       /\ dom[n].type = "text"
       /\ InDocument(dom, n)
       /\ UnitsAbove(dom, n) # {}
       /\ Occurrences(dom[n].text) # {}

(***************************************************************************)
(* The observer when the page appends an element that is already in the    *)
(* document: appendChild moves it, and the observer reports it as added.   *)
(***************************************************************************)
MaxPageMoves == 2

\* The page appends its element e to the body again
PageReappend(e) ==
  /\ pageAdds < MaxPageMoves
  /\ e # Body
  /\ dom[e].type = "element" /\ dom[e].byPage /\ dom[e].parent = Body
  /\ pageAdds' = pageAdds + 1
  /\ dom' = [dom EXCEPT ![Body].childNodes = Append(SelectSeq(@, LAMBDA k : k # e), e)]
  /\ records' = IF observer THEN Append(records, e) ELSE records
  /\ rootPasses' = IF observer /\ e \notin DOMAIN rootPasses
                   THEN (e :> 0) @@ rootPasses ELSE rootPasses
  /\ cleanSincePass' = FALSE
  /\ UNCHANGED <<storeVars, loadVars, initVars, cacheVars, processedNodes, observer,
                 timers, timeoutHandle, pendingRefresh, pendingOnChanged, storageWrites,
                 repeatReplaced, selfReplaced, selfPassed, scanVars, otherVars>>

ReportNext ==
  \/ InitLoadData
  \/ InitFinish
  \/ Refresh
  \/ StorageOnChanged
  \/ ObserverCallback
  \/ \E t \in timers : TimerFire(t)
  \/ \E text \in PageTexts : PageAppend(text)
  \/ \E e \in 1..Len(dom) : PageReappend(e)
  \/ \E words \in WrittenVocabularies : StorageWrite(words)

SpecReport == PageInit /\ [][ReportNext]_vars

\* C30: an element that the observer has reported is passed to
\* processSubtree at most once: after the pass of its subtree a later
\* report of the element is skipped.
C30_ProcessedRootSkipped ==
  \A r \in DOMAIN rootPasses : rootPasses[r] <= 1

(***************************************************************************)
(* The observer when the page removes an element: a removal record has no  *)
(* added nodes, so the callback takes nothing from it.                     *)
(***************************************************************************)
\* The page removes its element e from the body
PageRemove(e) ==
  /\ e # Body
  /\ dom[e].type = "element" /\ dom[e].byPage /\ dom[e].parent = Body
  /\ dom' = [dom EXCEPT ![Body].childNodes = SelectSeq(@, LAMBDA k : k # e),
                        ![e].parent = 0]
  /\ cleanSincePass' = FALSE
  /\ UNCHANGED <<storeVars, loadVars, initVars, cacheVars, processedNodes, observer,
                 records, timers, timeoutHandle, eventVars, rootPasses,
                 repeatReplaced, selfReplaced, selfPassed, scanVars, otherVars>>

RemoveNext ==
  \/ InitLoadData
  \/ InitFinish
  \/ Refresh
  \/ StorageOnChanged
  \/ ObserverCallback
  \/ \E t \in timers : TimerFire(t)
  \/ \E text \in PageTexts : PageAppend(text)
  \/ \E e \in 1..Len(dom) : PageRemove(e)
  \/ \E words \in WrittenVocabularies : StorageWrite(words)

SpecRemove == PageInit /\ [][RemoveNext]_vars

\* C31: no step replaces a text node that is no longer in the document: a
\* node removed with its root before the timer fires is left as it is.
C31_RemovedNodeSkipped ==
  [][\A n \in Detached : InDocument(dom, n)]_vars

(***************************************************************************)
(* Scans and the loads of settings and vocabulary (Spec).                  *)
(***************************************************************************)
\* The step compiles patterns, replaces a text node or installs the observer
ScanStarts ==
  \/ compileCount' > compileCount
  \/ Detached # {}
  \/ observer' /\ ~observer

\* C32: a step that scans is the rest of initialize() after its load, or a
\* listener that has loaded settings and vocabulary in the same step, or
\* the timer of the observer; the observer is installed by initialize()
\* after its load only, and a scan runs under a loaded autoTranslate only
\* (the setting is undefined before the first load).
C32_ScanAfterLoad ==
  [][/\ ScanStarts =>
          /\ \/ initPc = "loaded"
             \/ /\ pendingRefresh' < pendingRefresh
                /\ knownWords' = storedWords
                /\ settings' = StoredSettings
             \/ observer /\ \E t \in timers : Fires(t)
          /\ settings'.autoTranslate
     /\ (observer' /\ ~observer) => initPc = "loaded"]_vars

\* initialize() has loaded, scanned and replaced, and installed the observer
C32_Witness ==
  /\ initPc = "done"
  /\ isInitialized
  /\ observer
  /\ storageWrites = 0
  /\ processedNodes # {}

(***************************************************************************)
(* The subtitle script: initialize() and the polling interval of           *)
(* waitForVideoPlayer.  The feature is enabled and the page is a watch     *)
(* page, so every call of initialize() reaches waitForVideoPlayer.         *)
(***************************************************************************)
\* const maxAttempts = 30
maxAttempts == 30

\* Calls of initialize(): page load, navigation, settings toggle
MaxInitializes == 2

\* Calls of setupSubtitleObserver counted per interval
MaxSetups == 2

YtInit ==
  /\ knownWords = <<>>
  /\ originalText = <<>>
  /\ cachedPatterns = NoPatterns
  /\ cachedKnownWordsHash = NullHash
  /\ compileCount = 0
  /\ patterns = NoPatterns
  /\ uniqueMatches = <<>>
  /\ fragment = <<>>
  /\ pc = "youtube"
  /\ lastCall = NoCall
  /\ OtherIdle
  /\ PageIdle

\* clearInterval(playerCheckInterval)
AfterClearInterval(ivs, handle) == {iv \in ivs : iv.id # handle}

\* initialize() up to waitForVideoPlayer(): playerCheckInterval = setInterval(...)
YtInitialize ==
  /\ initializeCalls < MaxInitializes
  /\ initializeCalls' = initializeCalls + 1
  /\ intervals' = intervals \cup {[id |-> initializeCalls + 1, attempts |-> 0, setups |-> 0]}
  /\ playerCheckInterval' = initializeCalls + 1
  /\ UNCHANGED <<playerFound, writerVars, loopVars>>
  /\ UNCHANGED <<storeVars, loadVars, initVars, cacheVars, pageVars, eventVars, histVars,
                 scanVars>>

\* The callback of the interval iv, one second later.  attempts and setups
\* are kept up to maxAttempts and MaxSetups: the callback tests
\* attempts >= maxAttempts only.
YtTick(iv) ==
  /\ iv \in intervals
  /\ LET attempts == Min({iv.attempts + 1, maxAttempts})
         setups == Min({iv.setups + 1, MaxSetups})
         others == intervals \ {iv}
     IN intervals' =
          IF playerFound
          THEN AfterClearInterval(others \cup {[iv EXCEPT !.attempts = attempts,
                                                          !.setups = setups]},
                                  playerCheckInterval)
          ELSE IF attempts >= maxAttempts
          THEN AfterClearInterval(others \cup {[iv EXCEPT !.attempts = attempts]},
                                  playerCheckInterval)
          ELSE others \cup {[iv EXCEPT !.attempts = attempts]}
  /\ UNCHANGED <<playerFound, playerCheckInterval, initializeCalls, writerVars, loopVars>>
  /\ UNCHANGED <<storeVars, loadVars, initVars, cacheVars, pageVars, eventVars, histVars,
                 scanVars>>

\* The page creates #movie_player and .ytp-caption-window-container
YtPlayerLoads ==
  /\ ~playerFound
  /\ playerFound' = TRUE
  /\ UNCHANGED <<playerCheckInterval, intervals, initializeCalls, writerVars, loopVars>>
  /\ UNCHANGED <<storeVars, loadVars, initVars, cacheVars, pageVars, eventVars, histVars,
                 scanVars>>

YtNext ==
  \/ YtInitialize
  \/ \E iv \in intervals : YtTick(iv)
  \/ YtPlayerLoads

SpecYoutube == YtInit /\ [][YtNext]_vars

\* C33: a polling interval that has found the player and the container, or
\* has made maxAttempts attempts, is not running any more, so that no
\* interval sets up the subtitle observer twice.
C33_PollCleared ==
  \A iv \in intervals : iv.attempts < maxAttempts /\ iv.setups = 0

(***************************************************************************)
(* The pass of the whole page (SpecBlocks).                                *)
(***************************************************************************)
\* C34: when the pass of initialize() over the page has returned, and
\* neither page nor storage has changed since, no text node that the walk
\* accepts holds an occurrence of a key.
C34_PassComplete ==
  (/\ isInitialized
   /\ settings.autoTranslate
   /\ storageWrites = 0
   /\ pageAdds = 0) =>
    \A n \in 1..Len(dom) : ~EligibleWithKey(n)

(***************************************************************************)
(* The pattern cache under vocabularies whose keys hold the character '|'. *)
(***************************************************************************)
\* Loaded vocabularies: the keys 'a' and 'b', the one key 'a|b', the key 'a'
SignatureVocabularies ==
  {<<Entry(<<"a">>), Entry(<<"b">>)>>,
   <<Entry(<<"b">>), Entry(<<"a">>)>>,
   <<Entry(<<"a", "|", "b">>)>>,
   <<Entry(<<"a">>)>>,
   <<>>}

SignatureInit ==
  /\ knownWords \in SignatureVocabularies
  /\ originalText = <<>>
  /\ cachedPatterns = NoPatterns
  /\ cachedKnownWordsHash = NullHash
  /\ compileCount = 0
  /\ patterns = NoPatterns
  /\ uniqueMatches = <<>>
  /\ fragment = <<>>
  /\ pc = "cache"
  /\ lastCall = NoCall
  /\ OtherIdle
  /\ PageIdle

SignatureNext ==
  \/ \E words \in SignatureVocabularies : CacheLoad(words)
  \/ CacheInvalidate
  \/ CacheCall

SpecSignature == SignatureInit /\ [][SignatureNext]_vars

\* C35: the pattern list that getCompiledPatterns returns for the loaded
\* vocabulary is the list compiled from the keys of that vocabulary.
C35_CacheCoherent ==
  pc = "called" => patterns.chunks = CompileChunks(knownWords)

(***************************************************************************)
(* The units on the page against the loaded vocabulary (Spec).             *)
(***************************************************************************)
\* C36: when every storage change has been handled by the content script,
\* every unit in the document stands for a key of the loaded vocabulary.
C36_UnitsReflectVocabulary ==
  (/\ pendingRefresh = 0
   /\ pendingOnChanged = 0
   /\ knownWords = storedWords) =>
    \A e \in 1..Len(dom) :
       (dom[e].type = "element" /\ dom[e].translated /\ InDocument(dom, e)) =>
          HasKey(knownWords, toLowerCase(dom[e].original))

(***************************************************************************)
(* The match loop of replaceTextNode, one call of pattern.exec per step,   *)
(* on vocabularies that may hold the empty key.                            *)
(***************************************************************************)
\* Matches pushed before the model stops following the loop
MaxMatches == 4

\* Vocabularies as a file import or addWord('') leaves them
LoopVocabularies ==
  {<<Entry(<<"a">>)>>,
   <<Entry(<<"a">>), Entry(<<"b">>)>>,
   <<Entry(<<>>), Entry(<<"a">>)>>,
   <<Entry(<<"a">>), Entry(<<"b">>), Entry(<<>>)>>}

LoopInit ==
  /\ knownWords \in LoopVocabularies
  /\ originalText \in Texts
  /\ cachedPatterns = NoPatterns
  /\ cachedKnownWordsHash = NullHash
  /\ compileCount = 0
  /\ patterns = NoPatterns
  /\ uniqueMatches = <<>>
  /\ fragment = <<>>
  /\ pc = "start"
  /\ lastCall = NoCall
  /\ OtherIdle
  /\ PageIdle

\* The callback of the walk up to the call of replaceTextNode: the patterns
\* of getCompiledPatterns, the test of the text, pattern.lastIndex = 0 for
\* the first pattern
LoopStart ==
  /\ pc = "start"
  /\ LET r == getCompiledPatterns(knownWords, cachedPatterns, cachedKnownWordsHash, compileCount)
     IN /\ \E p \in 1..Len(r.patterns.chunks) : RegExpTest(r.patterns.chunks[p], originalText)
        /\ patterns' = r.patterns
        /\ cachedPatterns' = r.cachedPatterns
        /\ cachedKnownWordsHash' = r.cachedKnownWordsHash
        /\ compileCount' = r.compileCount
  /\ pc' = "exec"
  /\ patternAt' = 1
  /\ lastIndex' = 0
  /\ pushed' = <<>>
  /\ UNCHANGED <<originalText, uniqueMatches, fragment, lastCall>>
  /\ UNCHANGED <<storeVars, loadVars, initVars, pageVars, eventVars, histVars, ytVars,
                 writerVars>>

\* One evaluation of (match = pattern.exec(originalText)) !== null, with
\* the push when it is true and the step to the next pattern when not
ExecStep ==
  /\ pc = "exec"
  /\ Len(pushed) < MaxMatches
  /\ LET m == RegExpExec(patterns.chunks[patternAt], originalText, lastIndex)
     IN IF m.index # -1
        THEN /\ pushed' = Append(pushed, m)
             /\ lastIndex' = m.endIndex
             /\ UNCHANGED <<patternAt, pc>>
        ELSE /\ lastIndex' = 0
             /\ patternAt' = patternAt + 1
             /\ pc' = IF patternAt = Len(patterns.chunks) THEN "collected" ELSE "exec"
             /\ UNCHANGED pushed
  /\ UNCHANGED <<originalText, patterns, uniqueMatches, fragment, lastCall>>
  /\ UNCHANGED <<storeVars, loadVars, initVars, cacheVars, pageVars, eventVars, histVars,
                 ytVars, writerVars>>

LoopNext == LoopStart \/ ExecStep

SpecLoop == LoopInit /\ [][LoopNext]_vars

\* C37: every call of pattern.exec that returns a match moves
\* pattern.lastIndex forward, so that the loop over a text of finite length
\* ends.
C37_ExecAdvances ==
  [][(pc = "exec" /\ Len(pushed') > Len(pushed)) => lastIndex' > lastIndex]_vars

(***************************************************************************)
(* Writers of knownWords in different contexts (popup, content script,     *)
(* background): each reads the object, changes its copy and writes it.     *)
(***************************************************************************)
\* The operations at work, on different words
Writers ==
  {[kind |-> "add", word |-> <<"a">>],
   [kind |-> "add", word |-> <<"b">>],
   [kind |-> "remove", word |-> <<".", "a">>],
   [kind |-> "remove", word |-> <<"b", ".">>]}

\* The vocabularies in storage before the operations
WriterStores ==
  {VocabularyOf({<<".", "a">>, <<"b", ".">>}),
   VocabularyOf({<<".", "a">>, <<"b", ".">>, <<"a", " ", "b">>})}

WritersInit ==
  /\ knownWords = <<>>
  /\ originalText = <<>>
  /\ cachedPatterns = NoPatterns
  /\ cachedKnownWordsHash = NullHash
  /\ compileCount = 0
  /\ patterns = NoPatterns
  /\ uniqueMatches = <<>>
  /\ fragment = <<>>
  /\ pc = "writers"
  /\ lastCall = NoCall
  /\ playerFound = FALSE
  /\ playerCheckInterval = 0
  /\ intervals = {}
  /\ initializeCalls = 0
  /\ inFlight = {}
  /\ completed = {}
  /\ patternAt = 0
  /\ lastIndex = 0
  /\ pushed = <<>>
  /\ storedWords \in WriterStores
  /\ storedAuto = FALSE
  /\ storedExcluded = <<>>
  /\ importData = NoImport
  /\ settings = NoSettings
  /\ isInitialized = FALSE
  /\ initPc = "idle"
  /\ processedNodes = {}
  /\ dom = <<ElementNode("BODY", 0, FALSE, <<>>, TRUE)>>
  /\ observer = FALSE
  /\ records = <<>>
  /\ timers = {}
  /\ timeoutHandle = 0
  /\ pendingRefresh = 0
  /\ pendingOnChanged = 0
  /\ pageAdds = 0
  /\ storageWrites = 0
  /\ rootPasses = <<>>
  /\ cleanSincePass = FALSE
  /\ repeatReplaced = 0
  /\ selfReplaced = 0
  /\ selfPassed = FALSE

\* The object that operation op writes, from the object it has read
Written(op, read) ==
  IF op.kind = "add" THEN WithWord(read, toLowerCase(op.word))
  ELSE WithoutWord(read, toLowerCase(op.word))

\* chrome.storage.local.get(['knownWords'], callback) of operation op:
\* the callback is handed the object in storage
WriterGet(op) ==
  /\ op \notin completed
  /\ \A w \in inFlight : w.op # op
  /\ inFlight' = inFlight \cup {[op |-> op, knownWords |-> storedWords]}
  /\ UNCHANGED <<completed, ytVars, loopVars>>
  /\ UNCHANGED <<storeVars, loadVars, initVars, cacheVars, pageVars, eventVars, histVars,
                 scanVars>>

\* chrome.storage.local.set({ knownWords }) of the operation w, with the
\* object its callback has changed
WriterSet(w) ==
  /\ w \in inFlight
  /\ storedWords' = Written(w.op, w.knownWords)
  /\ inFlight' = inFlight \ {w}
  /\ completed' = completed \cup {w.op}
  /\ UNCHANGED <<storedAuto, storedExcluded, importData, ytVars, loopVars>>
  /\ UNCHANGED <<loadVars, initVars, cacheVars, pageVars, eventVars, histVars, scanVars>>

WritersNext ==
  \/ \E op \in Writers : WriterGet(op)
  \/ \E w \in inFlight : WriterSet(w)

SpecWriters == WritersInit /\ [][WritersNext]_vars

\* C38: when every operation that has read has written, the vocabulary in
\* storage holds the word of every completed addWord and not the word of
\* any completed removeWord.
C38_NoLostWrite ==
  inFlight = {} =>
    \A op \in completed :
       HasKey(storedWords, toLowerCase(op.word)) <=> (op.kind = "add")

(***************************************************************************)
(* Practice mode: the page is in the target language and processPage marks *)
(* the translations of the known words (translateUnknownWords).            *)
(***************************************************************************)
\* Nodes of the document up to which the model follows repeated passes
MaxPracticeNodes == 13

\* Texts of a page in the target language, one token per character
PracticeTexts ==
  {<<"wo">>, <<"de">>, <<"ni">>, <<"wo", "de">>, <<"ni", "wo">>, <<"wo", " ", "wo">>,
   <<"ni", " ", "de">>, <<"de", "wo">>, <<"wo", "ni", "de">>, <<"ta", " ", "wo">>}

\* Pages of one or two paragraphs
PracticePages ==
  {WithBlock(<<ElementNode("BODY", 0, FALSE, <<>>, TRUE)>>, Body, "P", t) :
     t \in PracticeTexts}
  \cup {WithBlock(WithBlock(<<ElementNode("BODY", 0, FALSE, <<>>, TRUE)>>, Body, "P", t),
                  Body, "P", <<"wo">>) : t \in {<<"ni">>, <<"de">>}}

\* Vocabularies whose translations are wo; wo and de; de and ta
PracticeVocabularies ==
  {<<Entry(<<"a">>)>>, <<Entry(<<"a">>), Entry(<<"b">>)>>,
   <<Entry(<<"b">>), Entry(<<"a", " ", "b">>)>>}

PracticeInit ==
  /\ knownWords = <<>>
  /\ originalText = <<>>
  /\ cachedPatterns = NoPatterns
  /\ cachedKnownWordsHash = NullHash
  /\ compileCount = 0
  /\ patterns = NoPatterns
  /\ uniqueMatches = <<>>
  /\ fragment = <<>>
  /\ pc = "practice"
  /\ lastCall = NoCall
  /\ OtherIdle
  /\ storedWords \in PracticeVocabularies
  /\ storedAuto = TRUE
  /\ storedExcluded = <<>>
  /\ importData = NoImport
  /\ settings = NoSettings
  /\ isInitialized = FALSE
  /\ initPc = "idle"
  /\ processedNodes = {}
  /\ dom \in PracticePages
  /\ observer = FALSE
  /\ records = <<>>
  /\ timers = {}
  /\ timeoutHandle = 0
  /\ pendingRefresh = 0
  /\ pendingOnChanged = 0
  /\ pageAdds = 0
  /\ storageWrites = 0
  /\ rootPasses = <<>>
  /\ cleanSincePass = FALSE
  /\ repeatReplaced = 0
  /\ selfReplaced = 0
  /\ selfPassed = FALSE

\* Object.keys(knownWords).map(w => knownWords[w].translation)
TranslationList(obj) == [i \in 1..Len(obj) |-> obj[i].translation]

\* new RegExp(`(${escapedWords.join('|')})`, 'g')
KnownPattern(wordList) ==
  LET alts == SplitAlternatives(Join(EscapeAll(wordList), <<"|">>), <<>>)
  IN [alts |-> [i \in 1..Len(alts) |-> ParseAtoms(alts[i])]]

\* An alternative of a pattern without the i flag at offset i of text
AltMatchesExactly(atoms, text, i) ==
  /\ i + Len(atoms) <= Len(text)
  /\ \A k \in 1..Len(atoms) : atoms[k].any \/ atoms[k].ch = text[i + k]

\* pattern.exec(originalText) for the pattern of the translations with
\* pattern.lastIndex = from; index = -1 stands for null
KnownExec(pattern, text, from) ==
  LET ok(i) == {k \in 1..Len(pattern.alts) : AltMatchesExactly(pattern.alts[k], text, i)}
      starts == {i \in from..Len(text) : ok(i) # {}}
  IN IF starts = {} THEN [text |-> <<>>, index |-> -1, endIndex |-> 0]
     ELSE LET i == Min(starts)
              e == i + Len(pattern.alts[Min(ok(i))])
          IN [text |-> Slice(text, i, e), index |-> i, endIndex |-> e]

\* The loop of highlightKnownWords from pattern.lastIndex = from, with the
\* text up to last already in the fragment: the text before each match, a
\* span per match, the remaining text
RECURSIVE KnownFragment(_, _, _, _)
KnownFragment(pattern, text, from, last) ==
  LET m == KnownExec(pattern, text, from)
  IN IF m.index = -1
     THEN IF last < Len(text)
          THEN <<[type |-> "text", text |-> Slice(text, last, Len(text))]>>
          ELSE <<>>
     ELSE (IF m.index > last
           THEN <<[type |-> "text", text |-> Slice(text, last, m.index)]>>
           ELSE <<>>)
          \o <<[type |-> "known", text |-> m.text]>>
          \o KnownFragment(pattern, text, m.endIndex, m.endIndex)

\* The nodes of the fragment of highlightKnownWords, appended to d with no
\* parent yet: the span of a match has class lang-learner-known and the
\* attribute data-known, and no data-translated
RECURSIVE WithKnownNodes(_, _, _)
WithKnownNodes(d, frag, i) ==
  IF i > Len(frag) THEN d
  ELSE IF frag[i].type = "text"
       THEN WithKnownNodes(Append(d, TextNode(frag[i].text, 0, FALSE)), frag, i + 1)
  ELSE LET e == Len(d) + 1
           d1 == d \o <<ElementNode("SPAN", 0, FALSE, <<>>, FALSE),
                        TextNode(frag[i].text, 0, FALSE)>>
       IN WithKnownNodes(AppendChild(d1, e, e + 1), frag, i + 1)

\* highlightKnownWords(textNode, originalText, pattern) on the document d
highlightKnownWords(d, n, pattern) ==
  LET frag == KnownFragment(pattern, d[n].text, 0, 0)
  IN Replaced(WithKnownNodes(d, frag, 1), n, d[n].parent,
              FragmentTop(frag, 1, Len(d) + 1)).dom

\* The callback of translateUnknownWords on one text node
KnownCallback(st, n, pattern) ==
  IF n \in st.processedNodes THEN st
  ELSE IF KnownExec(pattern, st.dom[n].text, 0).index = -1 THEN st
  ELSE [dom |-> highlightKnownWords(st.dom, n, pattern),
        processedNodes |-> st.processedNodes \cup {n}]

\* walkTextNodes(document.body, callback) of translateUnknownWords over
\* the text nodes list[i..]
RECURSIVE KnownWalkFrom(_, _, _, _)
KnownWalkFrom(st, list, i, pattern) ==
  IF i > Len(list) THEN st
  ELSE IF ~AcceptNode(st.dom, list[i]) THEN KnownWalkFrom(st, list, i + 1, pattern)
  ELSE LET st1 == KnownCallback(st, list[i], pattern)
       IN IF st1.dom[list[i]].parent = 0 THEN st1
          ELSE KnownWalkFrom(st1, list, i + 1, pattern)

translateUnknownWords(st, obj) ==
  IF Len(obj) = 0 THEN st
  ELSE KnownWalkFrom(st, TextNodesUnder(st.dom, Body), 1, KnownPattern(TranslationList(obj)))

\* processPage when determineMode returns 'practice'
processPagePractice(st, set, obj) ==
  IF ~set.autoTranslate THEN st ELSE translateUnknownWords(st, obj)

\* initialize() on a page in the target language: loadData, processPage,
\* setupMutationObserver (processSubtree does nothing in practice mode)
PracticeInitialize ==
  /\ ~isInitialized
  /\ isInitialized' = TRUE
  /\ initPc' = "loaded"
  /\ settings' = StoredSettings
  /\ knownWords' = storedWords
  /\ \E st \in {processPagePractice([dom |-> dom, processedNodes |-> processedNodes],
                                     StoredSettings, storedWords)} :
        /\ dom' = st.dom
        /\ processedNodes' = st.processedNodes
  /\ observer' = TRUE
  /\ UNCHANGED <<records, timers, timeoutHandle>>
  /\ UNCHANGED <<storeVars, cacheVars, eventVars, histVars, scanVars, otherVars>>

\* The refreshTranslations and storageChanged messages: loadData,
\* processedNodes = new WeakSet(), processPage
PracticeRefresh ==
  /\ isInitialized
  /\ Len(dom) < MaxPracticeNodes
  /\ settings' = StoredSettings
  /\ knownWords' = storedWords
  /\ \E st \in {processPagePractice([dom |-> dom, processedNodes |-> {}],
                                     StoredSettings, storedWords)} :
        /\ dom' = st.dom
        /\ processedNodes' = st.processedNodes
  /\ UNCHANGED <<observer, records, timers, timeoutHandle>>
  /\ UNCHANGED <<storeVars, initVars, cacheVars, eventVars, histVars, scanVars, otherVars>>

PracticeNext == PracticeInitialize \/ PracticeRefresh

SpecPractice == PracticeInit /\ [][PracticeNext]_vars

\* span.className = 'lang-learner-known': in practice mode the spans that the
\* content script makes are the highlight spans
IsKnownSpan(d, e) ==
  d[e].type = "element" /\ d[e].tag = "SPAN" /\ ~d[e].byPage /\ ~d[e].translated

\* C39: no known-word highlight span of the document lies inside another
\* known-word highlight span.
C39_NoNestedHighlight ==
  \A e \in 1..Len(dom) :
     (IsKnownSpan(dom, e) /\ InDocument(dom, e)) =>
        \A p \in Ancestors(dom, e) : ~IsKnownSpan(dom, p)

====
